---------------------------- MODULE Spec2Model ----------------------------
(***************************************************************************)
(* The sshd_config interpreter of aursu.general:                           *)
(*   plugins/module_utils/ssh_parser.py  (OptionStore, SshConfigParser)    *)
(* A parser owns a registry of OptionStores (one per scope).  parse() is   *)
(* a recursive descent over a file and the files its Include lines name;   *)
(* the recursion is modelled by an explicit call stack of frames, one      *)
(* frame per active parse() call, and one action per line of the loop.     *)
(*                                                                         *)
(* The filesystem snapshot (which paths exist and what they contain) is    *)
(* the input: it is chosen in Init and never changes afterwards.           *)
(* Collaborators outside the repository are modelled by their results:     *)
(* shlex.split by the token list of a line (or a failure), str.lower by a  *)
(* table over the spellings used, glob.glob by the set of existing paths a *)
(* pattern matches, returned in an arbitrary order.                        *)
(*                                                                         *)
(* Spec is one run of the module (plugins/modules/sshd_info.py, main): a   *)
(* new parser, one parse of the root, one snapshot, or the failure for a   *)
(* root that does not exist.  ReuseSpec lets a client parse a second root  *)
(* with the same parser, TwiceSpec lets it parse the same root again with  *)
(* a new parser.  CopiesSpec runs the module's own copy of the two classes *)
(* (plugins/modules/sshd_info.py) after the copy of module_utils, on the   *)
(* same root.  FilterSpec is apart: the attribute filters of               *)
(* plugins/filter/utils.py, applied to small lists of dictionaries.        *)
(***************************************************************************)
EXTENDS Integers, Sequences, FiniteSets, TLC

VARIABLES
    fs,        \* the filesystem snapshot: path -> [type, lines]
    root,      \* the path given to the top-level parse()
    phase,     \* "new" (constructed), "parsing", "done", "reported", "failed";
               \* "info_new" .. "info_reported" for the module's copy
    registry,  \* SshConfigParser.registry, in insertion order
    stack,     \* the active parse() calls, outermost first
    result,    \* what get_structured_data() returned (Nothing before)
    hist,      \* history of the calls made so far (auxiliary, never read by the parser)
    earlier,   \* the snapshot and history of the parse before this one, if any
    flt        \* a call of the attribute filters: its arguments and results

vars == <<fs, root, phase, registry, stack, result, hist, earlier, flt>>

-----------------------------------------------------------------------------
(* Constants of the program *)

\* ssh_parser.py:141  `if depth > 20`
MaxDepth == 20

\* the registry key of the global scope
GlobalScope == "global"

\* Python's None (OptionStore.location before the first Match line)
None == "None"

\* a variable that holds no structure yet
Nothing == [nothing |-> TRUE]

-----------------------------------------------------------------------------
(* Strings *)

\* str.lower() on the spellings that occur in the inputs; every other string
\* of the inputs is already lower case.
LowerTable ==
    [s \in {"Include", "INCLUDE", "Match", "MATCH", "Port", "PORT", "Banner",
            "LogLevel", "All", "ALL", "User bob", "User al"} |->
        CASE s = "Include"  -> "include"
          [] s = "INCLUDE"  -> "include"
          [] s = "Match"    -> "match"
          [] s = "MATCH"    -> "match"
          [] s = "Port"     -> "port"
          [] s = "PORT"     -> "port"
          [] s = "Banner"   -> "banner"
          [] s = "LogLevel" -> "loglevel"
          [] s = "All"      -> "all"
          [] s = "ALL"      -> "all"
          [] s = "User bob" -> "user bob"
          [] s = "User al"  -> "user al"]

Lower(s) == IF s \in DOMAIN LowerTable THEN LowerTable[s] ELSE s

\* " ".join(parts)
RECURSIVE JoinSpace(_)
JoinSpace(parts) ==
    IF parts = <<>> THEN ""
    ELSE IF Len(parts) = 1 THEN parts[1]
    ELSE parts[1] \o " " \o JoinSpace(Tail(parts))

\* x in list
Contains(seq, x) == \E i \in 1..Len(seq) : seq[i] = x

-----------------------------------------------------------------------------
(* Paths and the filesystem *)

\* The files of the small snapshots, and a chain of files for deep inclusion.
\* ChainLen bounds the length of the chain.
ChainLen == 22

ChainNames ==
    <<"/c/00", "/c/01", "/c/02", "/c/03", "/c/04", "/c/05", "/c/06", "/c/07",
      "/c/08", "/c/09", "/c/10", "/c/11", "/c/12", "/c/13", "/c/14", "/c/15",
      "/c/16", "/c/17", "/c/18", "/c/19", "/c/20", "/c/21", "/c/22", "/c/23",
      "/c/24">>

SmallPaths == {"/A", "/B", "/C"}
ChainPaths == {ChainNames[i] : i \in 1..ChainLen}

\* a directory next to the small files, and two files in it
SubDir == "/d"
SubPaths == {"/d/B", "/d/X"}
Paths == SmallPaths \cup ChainPaths \cup {SubDir} \cup SubPaths

\* All paths in ascending order of Python's string comparison (code points:
\* "/" < digits < upper case < lower case).
PathOrder == <<"/A", "/B", "/C">> \o ChainNames \o <<"/d", "/d/B", "/d/X">>

PathRank(p) == CHOOSE i \in 1..Len(PathOrder) : PathOrder[i] = p

\* p < q for str
LexLess(p, q) == PathRank(p) < PathRank(q)

\* The paths whose name an Include pattern matches (fnmatch on the names; the
\* literal patterns name themselves).
PatternNames(pattern) ==
    IF pattern = "/*" THEN SmallPaths \cup {SubDir}
    ELSE IF pattern \in Paths THEN {pattern}
    ELSE {}

\* What a path of the snapshot is: nothing, a regular file with its lines, a
\* directory, a regular file that cannot be opened for reading, or a symbolic
\* link whose target does not exist.
Missing == [type |-> "missing", lines |-> <<>>]
File(lines) == [type |-> "file", lines |-> lines]
Dir == [type |-> "dir", lines |-> <<>>]
Unreadable == [type |-> "unreadable", lines |-> <<>>]
Dangling == [type |-> "dangling", lines |-> <<>>]

\* os.path.lexists(p): the name is there, whatever it leads to
LExists(p) == p \in DOMAIN fs /\ fs[p].type # "missing"

\* os.path.exists(p) and os.path.isfile(p): both follow symbolic links
Exists(p) == p \in DOMAIN fs /\ fs[p].type \in {"file", "dir", "unreadable"}
IsFile(p) == p \in DOMAIN fs /\ fs[p].type \in {"file", "unreadable"}

\* io.open(abs_path, 'r') does not raise IOError/OSError
CanOpen(p) == p \in DOMAIN fs /\ fs[p].type = "file"

\* os.path.abspath: the paths of the snapshots are absolute and normalised
AbsPath(p) == p

\* The Include patterns of the inputs that do not start with "/"
RelativePatterns == {"B"}

\* os.path.isabs(pattern)
IsAbs(pattern) == pattern \notin RelativePatterns

\* os.path.dirname of the paths of the snapshots
DirName(p) ==
    IF p \in SmallPaths \cup {SubDir} THEN "/"
    ELSE IF p \in SubPaths THEN "/d"
    ELSE "/c"

\* os.path.join(base_dir, pattern) for a relative pattern
PathJoin(base_dir, pattern) ==
    IF base_dir = "/" THEN base_dir \o pattern ELSE base_dir \o "/" \o pattern

\* glob.glob(pattern): the names the pattern matches (a literal pattern is
\* tested with lexists, a wildcard against the directory listing: a dangling
\* link is returned in both cases).  The order in which glob returns them is
\* not specified: GlobOrders is every order.
GlobSet(pattern) == {p \in PatternNames(pattern) : LExists(p)}

RECURSIVE Perms(_)
Perms(S) ==
    IF S = {} THEN {<<>>}
    ELSE UNION {{<<x>> \o t : t \in Perms(S \ {x})} : x \in S}

GlobOrders(pattern) == Perms(GlobSet(pattern))

\* sorted(list of str): insertion of each element at its place
RECURSIVE InsertSorted(_, _)
InsertSorted(x, seq) ==
    IF seq = <<>> THEN <<x>>
    ELSE IF LexLess(seq[1], x) THEN <<seq[1]>> \o InsertSorted(x, Tail(seq))
    ELSE <<x>> \o seq

\* a plausible slip: the glob result used as it comes
Unsorted(seq) == seq

RECURSIVE Sorted(_)
Sorted(seq) ==
    IF seq = <<>> THEN <<>>
    ELSE InsertSorted(seq[1], Sorted(Tail(seq)))

-----------------------------------------------------------------------------
(* OptionStore *)

EmptyOptions == [k \in {} |-> None]

\* OptionStore.__init__
NewStore(scope_name) ==
    [scope_name |-> scope_name,
     location   |-> None,
     appearance |-> <<>>,
     options    |-> EmptyOptions]

\* a plausible slip: the location follows the last Match line
UpdateAppearanceLast(store, filepath) ==
    [store EXCEPT !.location = filepath,
                  !.appearance = IF Contains(@, filepath) THEN @
                                 ELSE Append(@, filepath)]

\* a plausible slip: the file compared with the last one of the list only
UpdateAppearanceConsecutive(store, filepath) ==
    [store EXCEPT !.location = IF @ = None THEN filepath ELSE @,
                  !.appearance = IF @ # <<>> /\ @[Len(@)] = filepath THEN @
                                 ELSE Append(@, filepath)]

\* OptionStore.update_appearance
UpdateAppearance(store, filepath) ==
    [store EXCEPT !.location = IF @ = None THEN filepath ELSE @,
                  !.appearance = IF Contains(@, filepath) THEN @
                                 ELSE Append(@, filepath)]

\* a plausible slip: the file appended without the membership test
AddNoDedup(store, key, value, filepath) ==
    LET k_lower == Lower(key) IN
    IF k_lower \notin DOMAIN store.options
    THEN [store EXCEPT !.options =
            (k_lower :> [name |-> key, value |-> value,
                         location |-> filepath, appearance |-> <<filepath>>]) @@ @]
    ELSE [store EXCEPT !.options[k_lower].appearance = Append(@, filepath)]

\* a plausible slip: the last occurrence replaces the value
AddLastWins(store, key, value, filepath) ==
    LET k_lower == Lower(key) IN
    IF k_lower \notin DOMAIN store.options
    THEN [store EXCEPT !.options =
            (k_lower :> [name |-> key, value |-> value,
                         location |-> filepath, appearance |-> <<filepath>>]) @@ @]
    ELSE [store EXCEPT !.options[k_lower].value = value,
                       !.options[k_lower].appearance =
                            IF Contains(@, filepath) THEN @ ELSE Append(@, filepath)]

\* a plausible slip: the newest file put in front of the list
AddPrepend(store, key, value, filepath) ==
    LET k_lower == Lower(key) IN
    IF k_lower \notin DOMAIN store.options
    THEN [store EXCEPT !.options =
            (k_lower :> [name |-> key, value |-> value,
                         location |-> filepath, appearance |-> <<filepath>>]) @@ @]
    ELSE [store EXCEPT !.options[k_lower].appearance =
                            IF Contains(@, filepath) THEN @ ELSE <<filepath>> \o @]

\* a plausible slip: the options kept under the spelling of the line
AddCaseSensitive(store, key, value, filepath) ==
    IF key \notin DOMAIN store.options
    THEN [store EXCEPT !.options =
            (key :> [name |-> key, value |-> value,
                     location |-> filepath, appearance |-> <<filepath>>]) @@ @]
    ELSE [store EXCEPT !.options[key].appearance =
                            IF Contains(@, filepath) THEN @ ELSE Append(@, filepath)]

\* OptionStore.add
Add(store, key, value, filepath) ==
    LET k_lower == Lower(key) IN
    IF k_lower \notin DOMAIN store.options
    THEN [store EXCEPT !.options =
            (k_lower :> [name |-> key, value |-> value,
                         location |-> filepath, appearance |-> <<filepath>>]) @@ @]
    ELSE [store EXCEPT !.options[k_lower].appearance =
                            IF Contains(@, filepath) THEN @ ELSE Append(@, filepath)]

\* OptionStore.to_dict: the options keyed by their first spelling, without "name"
OptionsExport(store) ==
    LET names == {store.options[k].name : k \in DOMAIN store.options}
        KeyOf(n) == CHOOSE k \in DOMAIN store.options : store.options[k].name = n
    IN [n \in names |->
            [value      |-> store.options[KeyOf(n)].value,
             location   |-> store.options[KeyOf(n)].location,
             appearance |-> store.options[KeyOf(n)].appearance]]

ToDict(store) ==
    IF store.scope_name = GlobalScope
    THEN OptionsExport(store)
    ELSE [condition  |-> store.scope_name,
          location   |-> store.location,
          appearance |-> store.appearance,
          options    |-> OptionsExport(store)]

-----------------------------------------------------------------------------
(* SshConfigParser: the registry *)

\* SshConfigParser.__init__
NewRegistry == <<NewStore(GlobalScope)>>

HasStore(reg, scope) == \E i \in 1..Len(reg) : reg[i].scope_name = scope

\* the place of the scope's store in the registry
StoreIndex(reg, scope) == CHOOSE i \in 1..Len(reg) : reg[i].scope_name = scope

\* a plausible slip: a store per Match line, never found again
GetStoreAlwaysNew(reg, scope) ==
    IF scope = GlobalScope THEN reg ELSE Append(reg, NewStore(scope))

\* a plausible slip: the newest scope put first
GetStorePrepend(reg, scope) ==
    IF HasStore(reg, scope) THEN reg ELSE <<NewStore(scope)>> \o reg

\* SshConfigParser._get_store: the registry with the scope's store in it
GetStore(reg, scope) ==
    IF HasStore(reg, scope) THEN reg ELSE Append(reg, NewStore(scope))

\* a plausible slip: the Match key set whether or not there is a Match block
GetStructuredDataAlways(reg) ==
    LET named == SelectSeq(reg, LAMBDA st : st.scope_name # GlobalScope)
        match_list == [i \in 1..Len(named) |-> ToDict(named[i])]
    IN [options |-> ToDict(reg[StoreIndex(reg, GlobalScope)]),
        has_match |-> TRUE,
        Match |-> match_list]

\* SshConfigParser.get_structured_data: has_match tells whether the key
\* "Match" is in the dictionary returned
GetStructuredDataOf(reg) ==
    LET named == SelectSeq(reg, LAMBDA st : st.scope_name # GlobalScope)
        match_list == [i \in 1..Len(named) |-> ToDict(named[i])]
    IN [options |-> ToDict(reg[StoreIndex(reg, GlobalScope)]),
        has_match |-> match_list # <<>>,
        Match |-> match_list]

\* The snapshot a caller holds, as it reads once the stores are `reg`: to_dict
\* builds new dictionaries and a new Match list, but puts the appearance lists
\* of the stores and of their options into them as they are, not copies, so
\* what is appended to a list later is seen through the snapshot.  Values and
\* locations are strings; options and scopes added later are not in it.
Aliased(res, reg) ==
    IF res = Nothing THEN Nothing
    ELSE LET g == reg[StoreIndex(reg, GlobalScope)]
             Through(exported, st) ==
                [n \in DOMAIN exported |->
                    [value      |-> exported[n].value,
                     location   |-> exported[n].location,
                     appearance |-> st.options[Lower(n)].appearance]]
         IN [options   |-> Through(res.options, g),
             has_match |-> res.has_match,
             Match     |-> [j \in 1..Len(res.Match) |->
                    LET st == reg[StoreIndex(reg, res.Match[j].condition)] IN
                    [condition  |-> res.Match[j].condition,
                     location   |-> res.Match[j].location,
                     appearance |-> st.appearance,
                     options    |-> Through(res.Match[j].options, st)]]]

-----------------------------------------------------------------------------
(* The lines of a file, as line.strip() and shlex.split() see them *)

Words(parts) == [t |-> "words", parts |-> parts]
BlankLine    == [t |-> "blank", parts |-> <<>>]
CommentLine  == [t |-> "comment", parts |-> <<>>]
BadQuoteLine == [t |-> "badquote", parts |-> <<>>]

\* `if not line or line.startswith('#')`, `except ValueError`, `if not parts`
Skipped(line) == line.t # "words" \/ line.parts = <<>>

\* key = parts[0]; value = " ".join(parts[1:]) if len(parts) > 1 else ""
KeyOf(line) == line.parts[1]

\* a plausible slip: the value folded to lower case like the key
ValueOfLower(line) ==
    IF Len(line.parts) > 1 THEN Lower(JoinSpace(Tail(line.parts))) ELSE ""

ValueOf(line) == IF Len(line.parts) > 1 THEN JoinSpace(Tail(line.parts)) ELSE ""

IsInclude(line) == ~Skipped(line) /\ Lower(KeyOf(line)) = "include"
IsMatch(line)   == ~Skipped(line) /\ Lower(KeyOf(line)) # "include"
                                  /\ Lower(KeyOf(line)) = "match"
IsOption(line)  == ~Skipped(line) /\ Lower(KeyOf(line)) # "include"
                                  /\ Lower(KeyOf(line)) # "match"

\* a plausible slip: the comparison without lower()
IsMatchAllExact(value) == value = "All"

\* `if value.lower() == "all"`
IsMatchAll(value) == Lower(value) = "all"

-----------------------------------------------------------------------------
(* SshConfigParser.parse *)

\* a plausible slip: the pattern resolved against the directory of the file
\* that holds the Include line
BaseDirOfFile == DirName(stack[Len(stack)].abs_path)

\* base_dir as main() sets it: os.path.dirname(config_path)
BaseDir == DirName(root)

\* a plausible slip: the limit itself is refused
DepthExceededOffByOne(depth) == depth >= MaxDepth

\* `if depth > 20: return`
DepthExceeded(depth) == depth > MaxDepth

\* the files some parse() call has read so far
Visited == {hist[i].file : i \in {j \in 1..Len(hist) :
                                    hist[j].op = "call" /\ hist[j].outcome = "enter"}}

\* a plausible slip: no loop protection at all
InCallStackNever(abs_path, call_stack) == FALSE

\* the rejected policy: a file is parsed once in the whole traversal
InCallStackVisited(abs_path, call_stack) == abs_path \in Visited

\* `if abs_path in call_stack: return`
InCallStack(abs_path, call_stack) == abs_path \in call_stack

\* The way a parse() call goes: "depth", "cycle", "missing" and "unreadable"
\* are the early returns, "enter" is the call that reads the file and runs the
\* loop.
ParseEntry(filepath, depth, call_stack) ==
    IF DepthExceeded(depth) THEN "depth"
    ELSE IF InCallStack(AbsPath(filepath), call_stack) THEN "cycle"
    ELSE IF ~Exists(AbsPath(filepath)) \/ ~IsFile(AbsPath(filepath)) THEN "missing"
    ELSE IF ~CanOpen(AbsPath(filepath)) THEN "unreadable"
    ELSE "enter"

\* a plausible slip: the file not added to the stack handed down
NewFrameNoPush(filepath, current_scope, depth, call_stack) ==
    [abs_path      |-> AbsPath(filepath),
     current_scope |-> current_scope,
     depth         |-> depth,
     new_stack     |-> call_stack,
     local_scope   |-> current_scope,
     pc            |-> 1,
     inc_line      |-> 0,
     pending       |-> <<>>]

\* a plausible slip: every file started in the global scope
NewFrameGlobal(filepath, current_scope, depth, call_stack) ==
    [abs_path      |-> AbsPath(filepath),
     current_scope |-> current_scope,
     depth         |-> depth,
     new_stack     |-> call_stack \cup {AbsPath(filepath)},
     local_scope   |-> GlobalScope,
     pc            |-> 1,
     inc_line      |-> 0,
     pending       |-> <<>>]

\* The locals of a parse() call that got past the early returns, with
\* `local_scope = current_scope`: pc is the
\* place of the loop in `lines`; while _handle_include runs for an Include
\* line, inc_line is that line and pending the matches still to be parsed.
NewFrame(filepath, current_scope, depth, call_stack) ==
    [abs_path      |-> AbsPath(filepath),
     current_scope |-> current_scope,
     depth         |-> depth,
     new_stack     |-> call_stack \cup {AbsPath(filepath)},
     local_scope   |-> current_scope,
     pc            |-> 1,
     inc_line      |-> 0,
     pending       |-> <<>>]

Top == stack[Len(stack)]
LinesOf(path) == fs[path].lines
Running == phase = "parsing" /\ stack # <<>>

\* a plausible slip: the included files left for later, the loop going on
AtLineDeferred == Running /\ Top.pc <= Len(LinesOf(Top.abs_path))

\* the loop is at a line: the calls of the Include line before it are over
AtLine == Running /\ Top.pending = <<>> /\ Top.pc <= Len(LinesOf(Top.abs_path))
CurLine == LinesOf(Top.abs_path)[Top.pc]
SetTop(frame) == [stack EXCEPT ![Len(stack)] = frame]
Chain == {stack[i].abs_path : i \in 1..Len(stack)}

\* a plausible slip: the root tested for being a file that can be read
RootFoundStrict == IsFile(root) /\ CanOpen(root)

\* main: `if os.path.exists(config_path)`
RootFound == Exists(root)

\* main: module.fail_json(msg="Config file not found: ..."), which ends the
\* run: no snapshot is taken
FailJson ==
    /\ phase = "new"
    /\ ~RootFound
    /\ phase' = "failed"
    /\ UNCHANGED <<flt, earlier, fs, root, registry, stack, result, hist>>

\* parser.parse(config_path, "global"), the top-level call
Parse ==
    /\ phase = "new"
    /\ RootFound
    /\ LET out == ParseEntry(root, 0, {}) IN
        /\ hist' = Append(hist, [op |-> "call", file |-> AbsPath(root), depth |-> 0,
                                  line |-> 0, chain |-> {}, scope |-> GlobalScope,
                                  outcome |-> out])
        /\ IF out = "enter"
           THEN /\ stack' = <<NewFrame(root, GlobalScope, 0, {})>>
                /\ phase' = "parsing"
           ELSE /\ stack' = <<>>
                /\ phase' = "done"
    /\ UNCHANGED <<flt, earlier, fs, root, registry, result>>

\* a plausible slip: `break` for `continue` where shlex cannot split the line
SkipLineBreak ==
    /\ AtLine
    /\ Skipped(CurLine)
    /\ stack' = SetTop([Top EXCEPT !.pc = IF CurLine.t = "badquote"
                                            THEN Len(LinesOf(Top.abs_path)) + 1
                                            ELSE @ + 1])
    /\ hist' = Append(hist, [op |-> "skip", file |-> Top.abs_path, line |-> Top.pc,
                              depth |-> Top.depth])
    /\ UNCHANGED <<flt, earlier, fs, root, phase, registry, result>>

\* a blank line, a comment, a line shlex cannot split: `continue`
SkipLine ==
    /\ AtLine
    /\ Skipped(CurLine)
    /\ stack' = SetTop([Top EXCEPT !.pc = @ + 1])
    /\ hist' = Append(hist, [op |-> "skip", file |-> Top.abs_path, line |-> Top.pc,
                              depth |-> Top.depth])
    /\ UNCHANGED <<flt, earlier, fs, root, phase, registry, result>>

\* the pattern _handle_include hands to glob
Resolve(pattern) == IF IsAbs(pattern) THEN pattern ELSE PathJoin(BaseDir, pattern)

\* an Include line: _handle_include expands the pattern; the calls it makes,
\* one per match, are the HandleIncludeNext steps that follow
IncludeLine ==
    /\ AtLine
    /\ IsInclude(CurLine)
    /\ \E order \in GlobOrders(Resolve(ValueOf(CurLine))) :
        /\ stack' = SetTop([Top EXCEPT !.pc = @ + 1, !.inc_line = Top.pc,
                                        !.pending = Sorted(order)])
        /\ hist' = Append(hist, [op |-> "include", file |-> Top.abs_path,
                                  line |-> Top.pc, depth |-> Top.depth,
                                  scope |-> Top.local_scope,
                                  pattern |-> ValueOf(CurLine)])
    /\ UNCHANGED <<flt, earlier, fs, root, phase, registry, result>>

\* a plausible slip: the loop over the matches given up at the first file
\* that cannot be parsed
HandleIncludeStop ==
    /\ Running
    /\ Top.pending # <<>>
    /\ LET file_path == Head(Top.pending)
           out == ParseEntry(file_path, Top.depth + 1, Top.new_stack)
           caller == [Top EXCEPT !.pending = IF out = "enter" THEN Tail(@) ELSE <<>>]
       IN
        /\ hist' = Append(hist, [op |-> "call", file |-> AbsPath(file_path),
                                  depth |-> Top.depth + 1, line |-> Top.inc_line,
                                  chain |-> Chain, scope |-> Top.local_scope,
                                  outcome |-> out])
        /\ stack' = IF out = "enter"
                     THEN Append(SetTop(caller),
                                 NewFrame(file_path, Top.local_scope, Top.depth + 1,
                                          Top.new_stack))
                     ELSE SetTop(caller)
    /\ UNCHANGED <<flt, earlier, fs, root, phase, registry, result>>

\* self.parse(file_path, active_scope, depth + 1, call_stack) for the next match
HandleIncludeNext ==
    /\ Running
    /\ Top.pending # <<>>
    /\ LET file_path == Head(Top.pending)
           out == ParseEntry(file_path, Top.depth + 1, Top.new_stack)
           caller == [Top EXCEPT !.pending = Tail(@)]
       IN
        /\ hist' = Append(hist, [op |-> "call", file |-> AbsPath(file_path),
                                  depth |-> Top.depth + 1, line |-> Top.inc_line,
                                  chain |-> Chain, scope |-> Top.local_scope,
                                  outcome |-> out])
        /\ stack' = IF out = "enter"
                     THEN Append(SetTop(caller),
                                 NewFrame(file_path, Top.local_scope, Top.depth + 1,
                                          Top.new_stack))
                     ELSE SetTop(caller)
    /\ UNCHANGED <<flt, earlier, fs, root, phase, registry, result>>

\* a Match line
MatchLine ==
    /\ AtLine
    /\ IsMatch(CurLine)
    /\ LET value == ValueOf(CurLine) IN
        IF IsMatchAll(value)
        THEN /\ stack' = SetTop([Top EXCEPT !.pc = @ + 1, !.local_scope = GlobalScope])
             /\ registry' = registry
        ELSE LET reg == GetStore(registry, value)
                 i == StoreIndex(reg, value)
             IN /\ stack' = SetTop([Top EXCEPT !.pc = @ + 1, !.local_scope = value])
                /\ registry' = [reg EXCEPT ![i] = UpdateAppearance(@, Top.abs_path)]
    /\ hist' = Append(hist, [op |-> "match", file |-> Top.abs_path, line |-> Top.pc,
                              depth |-> Top.depth, value |-> ValueOf(CurLine),
                              inherited |-> Top.current_scope])
    /\ result' = Aliased(result, registry')
    /\ UNCHANGED <<flt, earlier, fs, root, phase>>

\* a regular option
OptionLine ==
    /\ AtLine
    /\ IsOption(CurLine)
    /\ LET reg == GetStore(registry, Top.local_scope)
           i == StoreIndex(reg, Top.local_scope)
       IN registry' = [reg EXCEPT ![i] = Add(@, KeyOf(CurLine), ValueOf(CurLine),
                                              Top.abs_path)]
    /\ stack' = SetTop([Top EXCEPT !.pc = @ + 1])
    /\ hist' = Append(hist, [op |-> "add", file |-> Top.abs_path, line |-> Top.pc,
                              depth |-> Top.depth, scope |-> Top.local_scope,
                              key |-> Lower(KeyOf(CurLine)), name |-> KeyOf(CurLine),
                              value |-> ValueOf(CurLine),
                              inherited |-> Top.current_scope])
    /\ result' = Aliased(result, registry')
    /\ UNCHANGED <<flt, earlier, fs, root, phase>>

\* a plausible slip: the scope kept in the parser object, so that the scope
\* the included file ends in is the one its includer goes on with
ReturnLeak ==
    /\ Running
    /\ Top.pending = <<>>
    /\ Top.pc > Len(LinesOf(Top.abs_path))
    /\ stack' = IF Len(stack) = 1 THEN <<>>
                 ELSE [SubSeq(stack, 1, Len(stack) - 1) EXCEPT
                            ![Len(stack) - 1].local_scope = Top.local_scope]
    /\ phase' = IF Len(stack) = 1 THEN "done" ELSE phase
    /\ hist' = Append(hist, [op |-> "exit", file |-> Top.abs_path, depth |-> Top.depth])
    /\ UNCHANGED <<flt, earlier, fs, root, registry, result>>

\* the end of the loop: the call returns and its locals are gone
ReturnEOF ==
    /\ Running
    /\ Top.pending = <<>>
    /\ Top.pc > Len(LinesOf(Top.abs_path))
    /\ stack' = SubSeq(stack, 1, Len(stack) - 1)
    /\ phase' = IF Len(stack) = 1 THEN "done" ELSE phase
    /\ hist' = Append(hist, [op |-> "exit", file |-> Top.abs_path, depth |-> Top.depth])
    /\ UNCHANGED <<flt, earlier, fs, root, registry, result>>

\* A client that is done with a parser makes a new one and parses the same
\* root with it: SshConfigParser(base_dir) and parse(), once more.
NewParser ==
    /\ phase = "reported"
    /\ earlier = Nothing
    /\ earlier' = [snapshot |-> result, hist |-> hist]
    /\ registry' = NewRegistry
    /\ stack' = <<>>
    /\ result' = Nothing
    /\ hist' = <<>>
    /\ phase' = "new"
    /\ UNCHANGED <<flt, fs, root>>

\* A client calls parse() once more on the parser it has, for a root in the
\* directory of the first one: __init__ is not run again, the registry is
\* the one the first parse left, and the snapshot the client holds is still
\* made of its lists.
ParseAgain ==
    /\ phase = "reported"
    /\ earlier = Nothing
    /\ earlier' = [snapshot |-> result, hist |-> hist]
    /\ \E again \in {p \in DOMAIN fs : DirName(p) = DirName(root)} :
        LET out == ParseEntry(again, 0, {}) IN
        /\ root' = again
        /\ hist' = <<[op |-> "call", file |-> AbsPath(again), depth |-> 0,
                      line |-> 0, chain |-> {}, scope |-> GlobalScope,
                      outcome |-> out]>>
        /\ IF out = "enter"
           THEN /\ stack' = <<NewFrame(again, GlobalScope, 0, {})>>
                /\ phase' = "parsing"
           ELSE /\ stack' = <<>>
                /\ phase' = "done"
    /\ UNCHANGED <<flt, fs, registry, result>>

\* final_structure = parser.get_structured_data()
GetStructuredData ==
    /\ phase = "done"
    /\ result' = GetStructuredDataOf(registry)
    /\ phase' = "reported"
    /\ UNCHANGED <<flt, earlier, fs, root, registry, stack, hist>>

-----------------------------------------------------------------------------
(* The inputs *)

Opt(key, value) == Words(<<key, value>>)
Inc(pattern)    == Words(<<"Include", pattern>>)
MatchBob        == Words(<<"Match", "User", "bob">>)
MatchAl         == Words(<<"Match", "User", "al">>)

\* The contents a file of the small snapshots may have.
Bodies ==
    { <<>>,
      <<Opt("Port", "22")>>,
      <<Opt("Port", "80"), Opt("Banner", "no"), Opt("LogLevel", "INFO")>>,
      <<Inc("/B"), Opt("Port", "2222")>>,
      <<Opt("Banner", "yes"), Inc("/A")>>,
      <<MatchBob, Opt("Banner", "one"), Inc("/B")>>,
      <<MatchBob, Opt("Banner", "two"), Opt("Port", "8022")>>,
      <<MatchBob, Opt("Port", "22"), Words(<<"Match", "All">>), Opt("Banner", "x")>>,
      <<MatchBob, Inc("/C"), MatchAl, Inc("/C")>>,
      <<Inc("/*"), Opt("Port", "443")>>,
      <<Opt("Port", "22"), Inc("/B"), Opt("Banner", "b")>>,
      <<CommentLine, MatchAl, Opt("Port", "80"), Words(<<"match", "all">>),
        Opt("Banner", "c")>>,
      <<Inc("/A"), Opt("Port", "80")>>,
      <<Words(<<"Match", "global">>), Opt("Port", "1"), Words(<<"MATCH", "ALL">>),
        Opt("Banner", "g")>>,
      <<Inc("/C"), MatchAl, Opt("Port", "2200")>> }

\* what a path may be when it is not a readable regular file
OtherKinds == {Missing, Dir, Unreadable, Dangling}

SmallSnapshots ==
    { [p \in SmallPaths |->
          IF p = "/A" THEN File(a) ELSE IF p = "/B" THEN b ELSE c] :
        a \in Bodies,
        b \in {File(x) : x \in Bodies} \cup OtherKinds,
        c \in {File(x) : x \in Bodies} \cup OtherKinds }

\* Snapshots with a directory: the files /A and /d/X hold Include lines with
\* relative and absolute patterns, and a file B may be in both directories.
SubBodies ==
    { <<Inc("B"), Opt("Banner", "a")>>,
      <<Inc("/d/X"), Inc("B")>>,
      <<Inc("/A"), Opt("LogLevel", "INFO")>>,
      <<Opt("Banner", "z"), Inc("/*")>>,
      <<MatchAl, Inc("B"), Words(<<"Match", "ALL">>), Inc("B")>>,
      <<MatchBob, Opt("Port", "22"), Words(<<"Match", "user", "bob">>),
        Opt("Port", "80"), Words(<<"MATCH", "All">>), Opt("Port", "1")>>,
      <<MatchAl, Words(<<"include", "B">>), Words(<<"INCLUDE", "/d/X">>),
        Words(<<"MATCH", "User", "al">>)>>,
      <<MatchBob, BlankLine, Opt("Port", "22"), BadQuoteLine, CommentLine,
        Opt("Banner", "q")>> }

SubSnapshots ==
    { [p \in {"/A", "/B", SubDir} \cup SubPaths |->
          CASE p = "/A"   -> File(a)
            [] p = "/d/X" -> File(x)
            [] p = "/B"   -> b
            [] p = "/d/B" -> db
            [] OTHER      -> Dir] :
        a \in SubBodies, x \in SubBodies,
        b \in {File(<<Opt("Port", "22"), Opt("PORT", "2222")>>), Missing},
        db \in {File(<<Opt("Port", "80")>>), Missing} }

\* Snapshots whose root is not a readable regular file.
RootSnapshots ==
    { [p \in SmallPaths |-> IF p = "/A" THEN a ELSE b] :
        a \in OtherKinds, b \in {Missing, File(<<Opt("Port", "22")>>)} }

\* A chain: each file includes the next one, between the lines pre and post.
ChainSnapshot(pre, post) ==
    [p \in ChainPaths |->
        LET i == CHOOSE j \in 1..ChainLen : ChainNames[j] = p IN
        File(pre \o (IF i < ChainLen THEN <<Inc(ChainNames[i + 1])>> ELSE <<>>) \o post)]

ChainSnapshots ==
    { ChainSnapshot(pre, post) :
        pre \in {<<>>, <<Opt("Port", "22")>>, <<MatchBob>>},
        post \in {<<>>, <<Opt("Banner", "x")>>} }

Init ==
    /\ \/ fs \in SmallSnapshots \cup RootSnapshots /\ root = "/A"
       \/ fs \in ChainSnapshots /\ root = ChainNames[1]
       \/ fs \in SubSnapshots /\ root \in {"/A", "/d/X"}
    /\ phase = "new"
    /\ registry = NewRegistry
    /\ stack = <<>>
    /\ result = Nothing
    /\ hist = <<>>
    /\ earlier = Nothing
    /\ flt = Nothing

Next ==
    \/ FailJson
    \/ Parse
    \/ SkipLine
    \/ IncludeLine
    \/ HandleIncludeNext
    \/ MatchLine
    \/ OptionLine
    \/ ReturnEOF
    \/ GetStructuredData

Spec == Init /\ [][Next]_vars

\* One parser used for two parses.
ReuseNext == Next \/ ParseAgain
ReuseSpec == Init /\ [][ReuseNext]_vars

\* Two parsers, one after the other, for the same root and snapshot.
TwiceNext == Next \/ NewParser
TwiceSpec == Init /\ [][TwiceNext]_vars

\* parse() is synchronous, single-threaded code: a call that can take its
\* next step takes it.
FairSpec == Spec /\ WF_vars(Next)

-----------------------------------------------------------------------------
(* Reading the history *)

HistIdx == 1..Len(hist)
IsAdd(i) == hist[i].op = "add"
IsMatchEv(i) == hist[i].op = "match"
IsCall(i) == hist[i].op = "call"
Entered(i) == IsCall(i) /\ hist[i].outcome = "enter"
Finished == phase \in {"done", "reported"}

\* the add calls made so far for one option of one scope, in processing order
AddsOf(scope, key) ==
    SelectSeq(hist, LAMBDA e : e.op = "add" /\ e.scope = scope /\ e.key = key)

\* the distinct elements of a sequence, in order of first occurrence
RECURSIVE Distinct(_)
Distinct(seq) ==
    IF seq = <<>> THEN <<>>
    ELSE LET front == Distinct(SubSeq(seq, 1, Len(seq) - 1))
             last == seq[Len(seq)]
         IN IF Contains(front, last) THEN front ELSE Append(front, last)

FilesOf(events) == [i \in 1..Len(events) |-> events[i].file]

ScopesSeen == {registry[i].scope_name : i \in 1..Len(registry)}
                \cup {hist[i].scope : i \in {j \in HistIdx : IsAdd(j)}}
KeysSeen == UNION {DOMAIN registry[i].options : i \in 1..Len(registry)}
                \cup {hist[i].key : i \in {j \in HistIdx : IsAdd(j)}}

StoreOf(scope) == registry[StoreIndex(registry, scope)]

IsPrefix(s, t) == Len(s) <= Len(t) /\ SubSeq(t, 1, Len(s)) = s

\* The lines as the claims read them: by the spelling of the first word.
IncludeWords == {"Include", "include", "INCLUDE"}
MatchWords == {"Match", "match", "MATCH"}
AllWords == {"All", "all", "ALL"}

HasKey(line) == line.t = "words" /\ line.parts # <<>>
LineIsInclude(line) == HasKey(line) /\ line.parts[1] \in IncludeWords
LineIsMatch(line) == HasKey(line) /\ line.parts[1] \in MatchWords
LineIsOption(line) == HasKey(line) /\ line.parts[1] \notin IncludeWords \cup MatchWords
LineValue(line) == JoinSpace(Tail(line.parts))

\* a Match value that names a scope of its own: not `all` in any letter case,
\* and not the key the registry reserves for the global scope
NamedScope(value) == value \notin AllWords /\ value # "global"

\* no Match line among lines[from..to]
NoMatchIn(lines, from, to) == \A m \in from..to : ~LineIsMatch(lines[m])

\* The scope the Match lines among lines[1..n] of a file leave, for a file
\* entered in scope `inherited`: that of the last of them.
ScopeAt(lines, inherited, n) ==
    LET ms == {m \in 1..n : LineIsMatch(lines[m])} IN
    IF ms = {} THEN inherited
    ELSE LET m == CHOOSE x \in ms : \A y \in ms : y <= x IN
         IF LineValue(lines[m]) \in AllWords THEN "global" ELSE LineValue(lines[m])

-----------------------------------------------------------------------------
(* C1 *)

\* C1: first-wins.  In every state, each scope is held once in the registry,
\* and for every scope and option name: the option is recorded if and only if
\* add was called for it; its value and location are those of the first add
\* call for that name in that scope; its appearance is the list of the
\* distinct files of those add calls, in order of first registration.
C1_FirstWins ==
    /\ \A i, j \in 1..Len(registry) :
            registry[i].scope_name = registry[j].scope_name => i = j
    /\ \A scope \in ScopesSeen : \A key \in KeysSeen :
        LET adds == AddsOf(scope, key) IN
        IF adds = <<>>
        THEN HasStore(registry, scope) => key \notin DOMAIN StoreOf(scope).options
        ELSE /\ HasStore(registry, scope)
             /\ key \in DOMAIN StoreOf(scope).options
             /\ StoreOf(scope).options[key].value = adds[1].value
             /\ StoreOf(scope).options[key].location = adds[1].file
             /\ StoreOf(scope).options[key].appearance = Distinct(FilesOf(adds))

\* an option registered three times, by two files, the second time with
\* another value than the first
C1_Witness ==
    \E scope \in ScopesSeen : \E key \in KeysSeen :
        LET adds == AddsOf(scope, key) IN
        /\ Len(adds) >= 3
        /\ adds[2].value # adds[1].value
        /\ Len(StoreOf(scope).options[key].appearance) = 2

-----------------------------------------------------------------------------
(* C2 *)

C2_Located ==
    \A i \in 1..Len(registry) : \A k \in DOMAIN registry[i].options :
        /\ registry[i].options[k].appearance # <<>>
        /\ registry[i].options[k].location = registry[i].options[k].appearance[1]

C2_Stable ==
    \A i \in 1..Len(registry) : \A k \in DOMAIN registry[i].options :
        /\ i <= Len(registry')
        /\ registry'[i].scope_name = registry[i].scope_name
        /\ k \in DOMAIN registry'[i].options
        /\ registry'[i].options[k].value = registry[i].options[k].value
        /\ registry'[i].options[k].location = registry[i].options[k].location
        /\ IsPrefix(registry[i].options[k].appearance,
                    registry'[i].options[k].appearance)

\* C2: in every state every option record has location = appearance[0]; and
\* in every step every option record that exists stays, with the same value
\* and location, and with an appearance list that extends the one before.
C2_RecordStable == [](C2_Located) /\ [][C2_Stable]_vars

\* an option record whose appearance list has grown
C2_Witness ==
    \E i \in 1..Len(registry) : \E k \in DOMAIN registry[i].options :
        /\ Len(registry[i].options[k].appearance) >= 2
        /\ registry[i].options[k].location = registry[i].options[k].appearance[1]
        /\ Len(AddsOf(registry[i].scope_name, k)) >= 2

-----------------------------------------------------------------------------
(* C3 *)

\* C3: scope isolation.  While a file waits for the files of one of its
\* Include lines, its local scope is the one its own lines before that
\* Include line left, whatever Match lines the included files process, at any
\* depth; and every option on a line after an Include line, with no Match
\* line of the same file in between, is registered in the scope that was
\* active just before that Include line.
C3_ScopeIsolation ==
    /\ \A i \in 1..Len(stack) :
            (i < Len(stack) \/ stack[i].pending # <<>>) =>
                stack[i].local_scope =
                    ScopeAt(LinesOf(stack[i].abs_path), stack[i].current_scope,
                            stack[i].pc - 2)
    /\ \A i \in HistIdx : IsAdd(i) =>
            LET lines == LinesOf(hist[i].file) IN
            \A k \in 1..(hist[i].line - 1) :
                (LineIsInclude(lines[k]) /\ NoMatchIn(lines, k + 1, hist[i].line - 1))
                    => hist[i].scope = ScopeAt(lines, hist[i].inherited, k - 1)

\* an included file has processed a Match line for a named scope, and its
\* includer has then registered an option in another scope
C3_Witness ==
    \E i, j \in HistIdx :
        /\ i < j
        /\ IsMatchEv(i) /\ NamedScope(hist[i].value)
        /\ IsAdd(j)
        /\ hist[j].depth < hist[i].depth
        /\ hist[j].scope # hist[i].value
        /\ \A k \in (i + 1)..(j - 1) : hist[k].depth >= hist[j].depth
        /\ \E k \in 1..(hist[j].line - 1) : LineIsInclude(LinesOf(hist[j].file)[k])

-----------------------------------------------------------------------------
(* C4 *)

-----------------------------------------------------------------------------
(* C5 *)

IncludeLinesOf(path) ==
    {n \in 1..Len(LinesOf(path)) : LineIsInclude(LinesOf(path)[n])}
OptionLinesOf(path) ==
    {n \in 1..Len(LinesOf(path)) : LineIsOption(LinesOf(path)[n])}

\* a has one Include line, and it names b
IncludesOnly(a, b) ==
    /\ Cardinality(IncludeLinesOf(a)) = 1
    /\ \A n \in IncludeLinesOf(a) : LineValue(LinesOf(a)[n]) = b

\* the two-file mutual-include cycle, parsed from a
TwoFileCycle(a, b) ==
    /\ a # b /\ root = a
    /\ IsFile(a) /\ IsFile(b)
    /\ IncludesOnly(a, b) /\ IncludesOnly(b, a)

AddEventsAt(f, n) == {i \in HistIdx : IsAdd(i) /\ hist[i].file = f /\ hist[i].line = n}

C5_Once ==
    \A a, b \in DOMAIN fs : (Finished /\ TwoFileCycle(a, b)) =>
        \A f \in {a, b} : \A n \in OptionLinesOf(f) :
            /\ Cardinality(AddEventsAt(f, n)) = 1
            /\ \A i \in AddEventsAt(f, n) :
                LET adds == AddsOf(hist[i].scope, hist[i].key)
                    rec == StoreOf(hist[i].scope).options[hist[i].key]
                IN /\ Cardinality({x \in 1..Len(rec.appearance) :
                                        rec.appearance[x] = f}) = 1
                   /\ (\A x \in 1..Len(adds) : adds[x].file = f)
                            => rec.appearance = <<f>>

C5_Cyclic == \E a, b \in DOMAIN fs : TwoFileCycle(a, b)

-----------------------------------------------------------------------------
(* C6 *)

\* the parse() call that is running at depth d at step a is still running at
\* step b: it has not returned in between
SameCall(d, a, b) ==
    \A k \in (a + 1)..(b - 1) : ~(hist[k].op = "exit" /\ hist[k].depth = d)

\* calls i and j are made for two matches of the same Include line of the same
\* parse() call
SameExpansion(i, j) ==
    /\ i < j
    /\ IsCall(i) /\ IsCall(j)
    /\ hist[i].depth > 0
    /\ hist[i].depth = hist[j].depth
    /\ hist[i].line = hist[j].line
    /\ SameCall(hist[i].depth - 1, i, j)

\* the calls made for the Include line processed at step e
CallsOf(e) ==
    {i \in HistIdx :
        /\ i > e
        /\ IsCall(i)
        /\ hist[i].depth = hist[e].depth + 1
        /\ hist[i].line = hist[e].line
        /\ SameCall(hist[e].depth, e, i)}

\* the expansion of the Include line processed at step e is over: the file
\* has gone on to a later line, or has returned
ExpansionOver(e) ==
    \/ Finished
    \/ \E k \in HistIdx :
            /\ k > e
            /\ hist[k].depth = hist[e].depth
            /\ hist[k].op \in {"exit", "add", "match", "skip", "include"}

\* C6: deterministic glob ordering.  The calls made for one Include line are
\* made in ascending lexicographic order of the paths, whatever order glob
\* returned them in; a file entered is left again (with everything it
\* includes) before a later call of the line is made, and all that happens in
\* between is the parse of the matches between the two; once the expansion is
\* over, one call was made for each name the pattern matches; and when two of
\* the files register the same option in the same scope and nothing registered
\* it before the earlier file did, the record holds the earlier file's value
\* and location.
C6_GlobOrder ==
    /\ \A f \in 1..Len(stack) : \A x, y \in 1..Len(stack[f].pending) :
            x < y => LexLess(stack[f].pending[x], stack[f].pending[y])
    /\ \A i, j \in HistIdx : SameExpansion(i, j) =>
        /\ LexLess(hist[i].file, hist[j].file)
        /\ Entered(i) =>
                \E k \in (i + 1)..(j - 1) :
                    /\ hist[k].op = "exit"
                    /\ hist[k].file = hist[i].file
                    /\ hist[k].depth = hist[i].depth
                    /\ \A x \in (k + 1)..(j - 1) : hist[x].depth >= hist[i].depth
        /\ (Entered(i) /\ Entered(j)) =>
            \A x, y \in HistIdx :
                ( /\ i < x /\ x < j /\ j < y
                  /\ IsAdd(x) /\ IsAdd(y)
                  /\ hist[x].file = hist[i].file /\ hist[x].depth = hist[i].depth
                  /\ hist[y].file = hist[j].file /\ hist[y].depth = hist[j].depth
                  /\ hist[x].scope = hist[y].scope /\ hist[x].key = hist[y].key ) =>
                    LET rec == StoreOf(hist[x].scope).options[hist[x].key]
                        adds == AddsOf(hist[x].scope, hist[x].key)
                    IN adds[1] = hist[x] =>
                            /\ rec.value = hist[x].value
                            /\ rec.location = hist[i].file
                            /\ rec.location # hist[j].file
    /\ \A e \in HistIdx : (hist[e].op = "include" /\ ExpansionOver(e)) =>
            {hist[i].file : i \in CallsOf(e)} = GlobSet(Resolve(hist[e].pattern))
            /\ Cardinality(CallsOf(e)) = Cardinality(GlobSet(Resolve(hist[e].pattern)))

\* one Include line has matched two files that were both parsed, both set the
\* same option with different values, and the first one's value is recorded
C6_Witness ==
    \E i, j \in HistIdx :
        /\ SameExpansion(i, j) /\ Entered(i) /\ Entered(j)
        /\ \E x, y \in HistIdx :
            /\ i < x /\ x < j /\ j < y
            /\ IsAdd(x) /\ IsAdd(y)
            /\ hist[x].file = hist[i].file /\ hist[y].file = hist[j].file
            /\ hist[x].scope = hist[y].scope /\ hist[x].key = hist[y].key
            /\ hist[x].value # hist[y].value
            /\ StoreOf(hist[x].scope).options[hist[x].key].value = hist[x].value
            /\ StoreOf(hist[x].scope).options[hist[x].key].appearance
                    = <<hist[i].file, hist[j].file>>

-----------------------------------------------------------------------------
(* C7 *)

EnteredOnce(path) == Cardinality({i \in HistIdx : Entered(i) /\ hist[i].file = path}) = 1

\* the least element of a non-empty set of numbers
Least(S) == CHOOSE x \in S : \A y \in S : x <= y

\* C7: Include is expanded in place.  Take an Include line on line k of a
\* file F, processed in scope s, and a file T it makes parse() enter, F and T
\* each parsed once, and an option that, in scope s, only F and T register.
\* If T registers it and F does on a line before k, the record has the value
\* of F's first such line, location F and appearance [F, T]; if T registers it
\* and F does not, the record has T's value, location T and appearance [T]; if
\* T registers it and F does only on lines after k, the record has T's value,
\* location T and appearance [T, F].
C7_IncludeInPlace ==
    \A e \in HistIdx : hist[e].op = "include" =>
        \A c \in CallsOf(e) : Entered(c) =>
            LET F == hist[e].file
                T == hist[c].file
                s == hist[e].scope
                k == hist[e].line
                d == hist[e].depth
            IN \A key \in KeysSeen :
                LET all == {i \in HistIdx : IsAdd(i) /\ hist[i].scope = s
                                                     /\ hist[i].key = key}
                    byF == {i \in all : hist[i].file = F /\ hist[i].depth = d}
                    byT == {i \in all : hist[i].file = T /\ hist[i].depth = d + 1}
                    before == {hist[i].line : i \in {x \in byF : hist[x].line < k}}
                    after == {hist[i].line : i \in {x \in byF : hist[x].line > k}}
                    inT == {hist[i].line : i \in byT}
                    rec == StoreOf(s).options[key]
                IN ( /\ F # T /\ EnteredOnce(F) /\ EnteredOnce(T)
                     /\ all = byF \cup byT
                     /\ byT # {} ) =>
                    /\ before # {} =>
                        /\ rec.value = LineValue(LinesOf(F)[Least(before)])
                        /\ rec.location = F
                        /\ rec.appearance = <<F, T>>
                    /\ (before = {} /\ after = {}) =>
                        /\ rec.value = LineValue(LinesOf(T)[Least(inT)])
                        /\ rec.location = T
                        /\ rec.appearance = <<T>>
                    /\ (before = {} /\ after # {}) =>
                        /\ rec.value = LineValue(LinesOf(T)[Least(inT)])
                        /\ rec.location = T
                        /\ rec.appearance = <<T, F>>

\* after the parse of a root that includes one file: one option set before
\* the Include line and in the included file, one set only in the included
\* file, one set in the included file and after the Include line
C7_Witness ==
    /\ Finished
    /\ \E F, T \in DOMAIN fs : \E k1, k2, k3 \in DOMAIN StoreOf("global").options :
        /\ F # T
        /\ EnteredOnce(F) /\ EnteredOnce(T)
        /\ StoreOf("global").options[k1].appearance = <<F, T>>
        /\ StoreOf("global").options[k2].appearance = <<T>>
        /\ StoreOf("global").options[k3].appearance = <<T, F>>
        /\ \E n \in IncludeLinesOf(F) : \E a, b \in OptionLinesOf(F) :
            /\ a < n /\ n < b
            /\ Lower(LinesOf(F)[a].parts[1]) = k1
            /\ Lower(LinesOf(F)[b].parts[1]) = k3

-----------------------------------------------------------------------------
(* C8 *)

\* the Match lines processed so far for one condition, in processing order
MatchesOf(c) == SelectSeq(hist, LAMBDA e : e.op = "match" /\ e.value = c)

\* the conditions of the Match lines processed so far that name a scope
Conditions == {hist[i].value : i \in {j \in HistIdx : IsMatchEv(j) /\ NamedScope(hist[j].value)}}

\* the option names add was called with in one scope, by lower-case key
KeysAdded(scope) == {hist[i].key : i \in {j \in HistIdx : IsAdd(j) /\ hist[j].scope = scope}}

-----------------------------------------------------------------------------
(* C9 *)

\* the step at which the parse() call entered at step i returned, if it has
ExitOf(i) ==
    LET later == {k \in HistIdx : k > i /\ hist[k].op = "exit"
                                        /\ hist[k].depth = hist[i].depth}
    IN IF later = {} THEN 0 ELSE Least(later)

\* the lines of its file the parse() call entered at step i has processed
LinesDone(i) ==
    {hist[k].line : k \in {j \in HistIdx :
        /\ j > i
        /\ ExitOf(i) = 0 \/ j < ExitOf(i)
        /\ hist[j].op \in {"skip", "include", "match", "add"}
        /\ hist[j].depth = hist[i].depth}}

\* the parse() calls in the history are made at the depth the call chain has
C9_Depths ==
    \A i \in HistIdx : IsCall(i) =>
        /\ hist[i].depth = 0 <=> i = 1
        /\ hist[i].depth = Cardinality(hist[i].chain)

\* a file reached at depth d is read if and only if d <= 20 and it passes the
\* cycle and existence checks; a call with depth > 20 is refused for its depth
C9_Ceiling ==
    \A i \in HistIdx : IsCall(i) =>
        /\ Entered(i) <=> /\ hist[i].depth <= 20
                          /\ hist[i].file \notin hist[i].chain
                          /\ hist[i].file \in DOMAIN fs
                          /\ fs[hist[i].file].type = "file"
        /\ hist[i].outcome = "depth" <=> hist[i].depth > 20

\* a file that was read contributes every option line it holds, and a refused
\* call none: the step after it is its caller's
C9_Contributes ==
    \A i \in HistIdx : IsCall(i) =>
        IF Entered(i)
        THEN /\ LinesDone(i) \subseteq 1..Len(LinesOf(hist[i].file))
             /\ ExitOf(i) # 0 => LinesDone(i) = 1..Len(LinesOf(hist[i].file))
             /\ \A n \in LinesDone(i) : LineIsOption(LinesOf(hist[i].file)[n]) =>
                    \E k \in HistIdx :
                        /\ k > i /\ IsAdd(k)
                        /\ hist[k].file = hist[i].file
                        /\ hist[k].line = n
                        /\ hist[k].depth = hist[i].depth
                        /\ Contains(StoreOf(hist[k].scope).options[hist[k].key].appearance,
                                    hist[i].file)
        ELSE i < Len(hist) =>
                \/ hist[i + 1].depth < hist[i].depth
                \/ IsCall(i + 1) /\ hist[i + 1].depth = hist[i].depth

\* a call refused for its depth changes neither the registry nor the frames
\* of the files above it, which stay where they were in their lines
C9_Refused ==
    (/\ Len(hist') = Len(hist) + 1
     /\ hist'[Len(hist')].op = "call"
     /\ hist'[Len(hist')].depth > 20)
        => /\ registry' = registry
           /\ Len(stack') = Len(stack)
           /\ \A i \in 1..Len(stack) :
                /\ stack'[i].abs_path = stack[i].abs_path
                /\ stack'[i].pc = stack[i].pc
                /\ stack'[i].local_scope = stack[i].local_scope
           /\ phase' = phase

\* C9: depth ceiling.  With the root file at depth 0 and each Include adding
\* 1, a file reached at depth d is read, and contributes each of its lines, if
\* and only if d <= 20 and it passes the cycle and existence checks; a call
\* with depth > 20 returns at once, the registry and the frames of the files
\* above it unchanged, and every file that was read processes all its lines
\* before it returns.
C9_DepthCeiling ==
    /\ [](C9_Depths /\ C9_Ceiling /\ C9_Contributes)
    /\ [][C9_Refused]_vars

\* a chain of 22 files: the file at depth 20 was read, the call at depth 21
\* refused, and the file at depth 20 has registered an option on a line after
\* its Include line
C9_Witness ==
    \E i, j, k \in HistIdx :
        /\ i < j /\ j < k
        /\ Entered(i) /\ hist[i].depth = 20
        /\ IsCall(j) /\ hist[j].depth = 21 /\ hist[j].outcome = "depth"
        /\ fs[hist[j].file].type = "file"
        /\ IsAdd(k) /\ hist[k].depth = 20 /\ hist[k].file = hist[i].file
        /\ Finished

-----------------------------------------------------------------------------
(* C10 *)

\* the files whose parse() call is running when step i is taken: those
\* entered before i that have not returned before i
RunningAt(i) ==
    {hist[k].file : k \in {j \in HistIdx :
        j < i /\ Entered(j) /\ (ExitOf(j) = 0 \/ ExitOf(j) > i)}}

\* the file was read to its end by a call made before step i
ParsedBefore(i) ==
    \E k \in HistIdx :
        /\ k < i /\ Entered(k)
        /\ hist[k].file = hist[i].file
        /\ ExitOf(k) # 0 /\ ExitOf(k) < i

\* the option lines of a file that come before its first Match line
LeadingOptions(path) ==
    {n \in 1..Len(LinesOf(path)) :
        LineIsOption(LinesOf(path)[n]) /\ NoMatchIn(LinesOf(path), 1, n - 1)}

\* C10: ancestor-stack cycle policy.  A parse() call is skipped for a cycle
\* only when its file is being parsed on the call chain of that call, and
\* every call within the depth limit whose file is on its chain is skipped; a
\* call for a regular file that is not on its chain is read, also when the
\* file was parsed to its end before; and a file read in two different scopes
\* has, once both calls have returned, each option it holds before its first
\* Match line recorded in both scopes, with the file in the appearance list.
C10_AncestorStack ==
    /\ \A i \in HistIdx : IsCall(i) =>
        /\ hist[i].chain = RunningAt(i)
        /\ hist[i].outcome = "cycle" => hist[i].file \in RunningAt(i)
        /\ (hist[i].file \in RunningAt(i) /\ hist[i].depth <= MaxDepth)
                => hist[i].outcome = "cycle"
        /\ (/\ hist[i].file \notin RunningAt(i)
            /\ hist[i].depth <= MaxDepth
            /\ fs[hist[i].file].type = "file") => Entered(i)
    /\ \A i, j \in HistIdx :
        (/\ i < j
         /\ Entered(i) /\ Entered(j)
         /\ hist[i].file = hist[j].file
         /\ hist[i].scope # hist[j].scope
         /\ ExitOf(i) # 0 /\ ExitOf(j) # 0)
            => \A n \in LeadingOptions(hist[i].file) :
                \A sc \in {hist[i].scope, hist[j].scope} :
                    LET key == Lower(LinesOf(hist[i].file)[n].parts[1]) IN
                    /\ HasStore(registry, sc)
                    /\ key \in DOMAIN StoreOf(sc).options
                    /\ Contains(StoreOf(sc).options[key].appearance, hist[i].file)

\* a shared file included from two Match blocks of one file: it was parsed to
\* its end in the first scope, read again in the second, and an option of it
\* is located in it in both scopes
C10_Witness ==
    \E i, j \in HistIdx :
        /\ i < j
        /\ Entered(i) /\ Entered(j)
        /\ hist[i].file = hist[j].file
        /\ ParsedBefore(j)
        /\ NamedScope(hist[i].scope) /\ NamedScope(hist[j].scope)
        /\ hist[i].scope # hist[j].scope
        /\ ExitOf(j) # 0
        /\ \E n \in LeadingOptions(hist[i].file) :
            LET key == Lower(LinesOf(hist[i].file)[n].parts[1]) IN
            /\ StoreOf(hist[i].scope).options[key].location = hist[i].file
            /\ StoreOf(hist[j].scope).options[key].location = hist[i].file

-----------------------------------------------------------------------------
(* C11 *)

\* the outcomes of a parse() call for a target that is not there, is not a
\* regular file or cannot be opened
Untouchable == {"missing", "unreadable"}

\* the step is such a call, made for an Include line
C11_Call ==
    /\ Len(hist') = Len(hist) + 1
    /\ hist'[Len(hist')].op = "call"
    /\ hist'[Len(hist')].depth > 0
    /\ hist'[Len(hist')].outcome \in Untouchable

\* the call changes nothing but the list of matches left to its includer
C11_Tolerated ==
    C11_Call =>
        /\ registry' = registry
        /\ phase' = phase
        /\ Len(stack') = Len(stack)
        /\ \A i \in 1..(Len(stack) - 1) : stack'[i] = stack[i]
        /\ stack'[Len(stack)] = [stack[Len(stack)] EXCEPT !.pending = Tail(@)]

\* the names an Include pattern of the snapshot leads to
NamesOf(pattern) == {p \in PatternNames(Resolve(pattern)) : LExists(p)}

\* the outcome a call has by the kind of its target alone
KindOutcome(path) ==
    CASE fs[path].type \in {"dangling", "dir"} -> "missing"
      [] fs[path].type = "unreadable" -> "unreadable"
      [] OTHER -> "enter"

\* every match of an Include line is called, whatever became of the matches
\* before it, and a file that was read processes each of its lines, whatever
\* became of the files it included
C11_GoesOn ==
    /\ \A e \in HistIdx : (hist[e].op = "include" /\ ExpansionOver(e)) =>
            {hist[c].file : c \in CallsOf(e)} = NamesOf(hist[e].pattern)
    /\ \A i \in HistIdx : (IsCall(i) /\ hist[i].depth <= MaxDepth
                                    /\ hist[i].file \notin hist[i].chain) =>
            hist[i].outcome = KindOutcome(hist[i].file)
    /\ \A i \in HistIdx : (Entered(i) /\ ExitOf(i) # 0) =>
            LinesDone(i) = 1..Len(LinesOf(hist[i].file))

\* C11: missing or unreadable include.  A parse() call made for an Include
\* line whose target does not exist (a dangling link), is not a regular file
\* (a directory) or cannot be opened returns without raising: the step leaves
\* the registry, the phase and every frame as they were, but for the match
\* taken off the includer's list, which is all a call for an empty file
\* leaves behind; the includer then calls its remaining matches and processes
\* its remaining lines.
C11_MissingInclude == [](C11_GoesOn) /\ [][C11_Tolerated]_vars

\* an Include line whose first match could not be parsed and whose second
\* match was read and registered an option; its includer registered an option
\* on a later line
C11_Witness ==
    \E i, j, k, l \in HistIdx :
        /\ IsCall(i) /\ hist[i].outcome \in Untouchable
        /\ SameExpansion(i, j) /\ Entered(j)
        /\ j < k /\ IsAdd(k) /\ hist[k].file = hist[j].file
        /\ hist[k].depth = hist[j].depth
        /\ k < l /\ IsAdd(l) /\ hist[l].depth = hist[i].depth - 1
        /\ hist[l].line > hist[i].line
        /\ Finished

-----------------------------------------------------------------------------
(* C12 *)

\* the files called for the Include line processed at step e
CalledFor(e) == {hist[c].file : c \in CallsOf(e)}

\* C12: Include base directory.  For every Include line, in the root file or
\* in an included file at any depth, once its expansion is over: a relative
\* pattern has led to the names that the pattern joined to the directory of
\* the root file matches, and to no name it would only match when joined to
\* the directory of the file that holds the line; an absolute pattern has led
\* to the names it matches as it stands.
C12_BaseDir ==
    \A e \in HistIdx : (hist[e].op = "include" /\ ExpansionOver(e)) =>
        LET pat == hist[e].pattern
            rootdir == DirName(root)
            owndir == DirName(hist[e].file)
            Names(pt) == {p \in PatternNames(pt) : LExists(p)}
        IN IF pat \in RelativePatterns
           THEN /\ CalledFor(e) = Names(PathJoin(rootdir, pat))
                /\ owndir # rootdir =>
                        CalledFor(e) \cap Names(PathJoin(owndir, pat)) = {}
           ELSE CalledFor(e) = Names(pat)

\* a file in another directory than the root file holds a relative Include
\* line; the name exists in both directories, and the one next to the root
\* file was read
C12_Witness ==
    \E e, c \in HistIdx :
        /\ hist[e].op = "include"
        /\ hist[e].pattern \in RelativePatterns
        /\ hist[e].depth > 0
        /\ DirName(hist[e].file) # DirName(root)
        /\ CanOpen(PathJoin(DirName(hist[e].file), hist[e].pattern))
        /\ c \in CallsOf(e) /\ Entered(c)
        /\ hist[c].file = PathJoin(DirName(root), hist[e].pattern)
        /\ ExpansionOver(e)

-----------------------------------------------------------------------------
(* C13 *)

\* the root file is there: a file, a directory, or a link that leads to one
RootThere == root \in DOMAIN fs /\ fs[root].type \notin {"missing", "dangling"}

\* the record the snapshot holds for an option of a scope, if it holds one
SnapshotRecords(scope, name) ==
    IF scope = "global"
    THEN IF name \in DOMAIN result.options THEN {result.options[name]} ELSE {}
    ELSE {result.Match[i].options[name] :
            i \in {j \in 1..Len(result.Match) :
                    /\ result.Match[j].condition = scope
                    /\ name \in DOMAIN result.Match[j].options}}

\* the run has failed if and only if it has started and the root is not there;
\* a failed run has parsed nothing and returned nothing
C13_Failure ==
    /\ phase = "failed" <=> (phase # "new" /\ ~RootThere)
    /\ phase = "failed" =>
            /\ hist = <<>>
            /\ result = Nothing
            /\ registry = NewRegistry

\* the snapshot of a run holds, for every option line of the root file, a
\* record of that option in the line's scope that lists the root file
C13_Snapshot ==
    phase = "reported" =>
        /\ RootThere
        /\ fs[root].type = "file" =>
            /\ Entered(1) /\ hist[1].file = root
            /\ LinesDone(1) = 1..Len(LinesOf(root))
            /\ \A i \in HistIdx : (IsAdd(i) /\ hist[i].depth = 0) =>
                LET first == AddsOf(hist[i].scope, hist[i].key)[1]
                    recs == SnapshotRecords(hist[i].scope, first.name)
                IN /\ Cardinality(recs) = 1
                   /\ \A r \in recs : Contains(r.appearance, root)

C13_TolerantRun ==
    /\ phase = "reported"
    /\ \E i, j \in HistIdx :
        /\ IsCall(i) /\ hist[i].depth = 1 /\ hist[i].outcome \in Untouchable
        /\ IsAdd(j) /\ hist[j].depth = 0 /\ i < j
        /\ SnapshotRecords(hist[j].scope, hist[j].name) # {}

-----------------------------------------------------------------------------
(* C14 *)

\* the places in the registry of the scopes other than the global one
NamedStores == {i \in 1..Len(registry) : registry[i].scope_name # "global"}

\* the snapshot's record of an option is the store's, without the name
SameRecord(rec, opt) ==
    /\ DOMAIN rec = {"value", "location", "appearance"}
    /\ rec.value = opt.value
    /\ rec.location = opt.location
    /\ rec.appearance = opt.appearance

\* the exported options are those of the store, under the spelling of their
\* first registration
SameOptions(exported, store) ==
    /\ DOMAIN exported = {store.options[k].name : k \in DOMAIN store.options}
    /\ \A k \in DOMAIN store.options :
            SameRecord(exported[store.options[k].name], store.options[k])

\* C14: snapshot shape.  The snapshot returned by get_structured_data holds
\* the options of the global scope as top-level entries {value, location,
\* appearance}; the key Match is present if and only if the registry holds a
\* scope other than the global one, and the list then holds exactly one entry
\* per such scope, with the scope id as condition and the scope's location,
\* appearance and options.
C14_SnapshotShape ==
    phase = "reported" =>
        /\ \E g \in 1..Len(registry) :
            /\ registry[g].scope_name = "global"
            /\ SameOptions(result.options, registry[g])
        /\ result.has_match <=> NamedStores # {}
        /\ Len(result.Match) = Cardinality(NamedStores)
        /\ \A i \in NamedStores :
            \E j \in 1..Len(result.Match) :
                /\ DOMAIN result.Match[j] =
                        {"condition", "location", "appearance", "options"}
                /\ result.Match[j].condition = registry[i].scope_name
                /\ result.Match[j].location = registry[i].location
                /\ result.Match[j].appearance = registry[i].appearance
                /\ SameOptions(result.Match[j].options, registry[i])
                /\ \A k \in 1..Len(result.Match) :
                        result.Match[k].condition = registry[i].scope_name => k = j

\* a snapshot with global options and two Match entries, one of them with
\* options of its own
C14_Witness ==
    /\ phase = "reported"
    /\ DOMAIN result.options # {}
    /\ result.has_match
    /\ Len(result.Match) = 2
    /\ \E j \in 1..2 : DOMAIN result.Match[j].options # {}

\* a snapshot without the key Match, of a traversal that registered options
C14_NoMatchKey ==
    /\ phase = "reported"
    /\ DOMAIN result.options # {}
    /\ ~result.has_match

-----------------------------------------------------------------------------
(* C15 *)

\* the conditions of the Match lines processed so far that name a scope, in
\* the order of the traversal (the lines of an included file where its
\* Include line is)
ConditionsInOrder ==
    LET ms == SelectSeq(hist, LAMBDA e : e.op = "match" /\ NamedScope(e.value))
    IN Distinct([i \in 1..Len(ms) |-> ms[i].value])

\* C15: order of the Match list.  The conditions of the entries of the
\* snapshot's Match list, read in list order, are the distinct scope ids of
\* the Match lines of the traversal in the order of their first occurrence; a
\* later Match line for a condition already seen does not move its entry.
C15_MatchOrder ==
    phase = "reported" =>
        [j \in 1..Len(result.Match) |-> result.Match[j].condition] = ConditionsInOrder

\* a snapshot with two Match entries, the condition of the first of which
\* occurred again after the second one was first seen
C15_Witness ==
    /\ phase = "reported"
    /\ Len(result.Match) = 2
    /\ \E i, j, k \in HistIdx :
        /\ i < j /\ j < k
        /\ IsMatchEv(i) /\ IsMatchEv(j) /\ IsMatchEv(k)
        /\ hist[i].value = result.Match[1].condition
        /\ hist[j].value = result.Match[2].condition
        /\ hist[k].value = result.Match[1].condition
        /\ hist[k].file # hist[i].file

-----------------------------------------------------------------------------
(* C16 *)

\* option names and values to register again
SomeNames == {"Port", "PORT", "Banner", "LogLevel"}
SomeValues == {"22", "yes"}

NoDuplicates(seq) == \A i, j \in 1..Len(seq) : seq[i] = seq[j] => i = j

\* add(name, value, file) applied to a store, and then once more with the
\* same name and file and any value, leaves the store as the first left it
C16_AddTwice ==
    \A i \in 1..Len(registry) : \A name \in SomeNames : \A f \in DOMAIN fs :
        \A v1, v2 \in SomeValues :
            LET once == Add(registry[i], name, v1, f) IN
            Add(once, name, v2, f) = once

\* update_appearance(file) applied twice is update_appearance(file)
C16_UpdateTwice ==
    \A i \in 1..Len(registry) : \A f \in DOMAIN fs :
        LET once == UpdateAppearance(registry[i], f) IN
        UpdateAppearance(once, f) = once

C16_NoDuplicates ==
    \A i \in 1..Len(registry) :
        /\ NoDuplicates(registry[i].appearance)
        /\ \A k \in DOMAIN registry[i].options :
                NoDuplicates(registry[i].options[k].appearance)

\* C16: idempotence of registration.  For every store the parser can hold,
\* every option name, file and pair of values: add(name, v1, file) followed
\* by add(name, v2, file) leaves the store as add(name, v1, file) alone does;
\* update_appearance(file) twice leaves it as update_appearance(file) once
\* does; and no appearance list, of a scope or of an option, holds a file
\* twice.
C16_Idempotent == C16_AddTwice /\ C16_UpdateTwice /\ C16_NoDuplicates

\* one file has registered the same option of the same scope twice, with two
\* values, and a Match line for the same condition twice: the file is once in
\* the lists, the value is the first one
C16_Witness ==
    /\ \E i, j \in HistIdx :
        /\ i < j
        /\ IsAdd(i) /\ IsAdd(j)
        /\ hist[i].scope = hist[j].scope
        /\ hist[i].key = hist[j].key
        /\ hist[i].file = hist[j].file
        /\ hist[i].value # hist[j].value
        /\ StoreOf(hist[i].scope).options[hist[i].key].appearance = <<hist[i].file>>
        /\ StoreOf(hist[i].scope).options[hist[i].key].value = hist[i].value

-----------------------------------------------------------------------------
(* C17 *)

\* the files of a sequence of events
FileSet(events) == {events[i].file : i \in 1..Len(events)}

\* the exported options of a scope all come from add calls of this traversal
FromThisParse(exported, scope) ==
    \A n \in DOMAIN exported :
        LET adds == AddsOf(scope, Lower(n)) IN
        /\ adds # <<>>
        /\ \A k \in 1..Len(exported[n].appearance) :
                exported[n].appearance[k] \in FileSet(adds)

\* C17: fresh state per top-level parse.  Every top-level parse starts on a
\* registry that holds only the empty global scope, and the snapshot taken
\* after it holds no option, no scope and no appearance entry but those the
\* lines of that traversal registered.
C17_FreshPerParse ==
    /\ (Len(hist) = 1 /\ IsCall(1) /\ hist[1].depth = 0) => registry = NewRegistry
    /\ phase = "reported" =>
        /\ FromThisParse(result.options, "global")
        /\ \A j \in 1..Len(result.Match) :
            LET c == result.Match[j].condition IN
            /\ MatchesOf(c) # <<>>
            /\ \A k \in 1..Len(result.Match[j].appearance) :
                    result.Match[j].appearance[k] \in FileSet(MatchesOf(c))
            /\ FromThisParse(result.Match[j].options, c)

-----------------------------------------------------------------------------
(* C18 *)

\* the step is a call of get_structured_data, which returns a new structure
C18_Returns == phase = "done" /\ phase' = "reported"

\* C18: snapshot immutability.  Once get_structured_data has returned a
\* structure, no step of the parser changes it: in every step that is not a
\* new call of get_structured_data, the structure the caller holds reads the
\* same after the step as before, appearance lists included.
C18_Immutable == [][(result # Nothing /\ ~C18_Returns) => result' = result]_vars

-----------------------------------------------------------------------------
(* C19 *)

\* C19: determinism.  Two parses of the same root on two fresh parsers, over
\* the same filesystem snapshot, return equal snapshots (the order of every
\* appearance list and of the Match list included) after equal traversals,
\* whatever order glob returned its matches in, in the one and in the other.
C19_Deterministic ==
    (phase = "reported" /\ earlier # Nothing) =>
        /\ result = earlier.snapshot
        /\ hist = earlier.hist

\* two parses have returned the same snapshot, with a Match entry and an
\* option that two files set; an Include line of the traversal had two
\* matches that were read
C19_Witness ==
    /\ phase = "reported"
    /\ earlier # Nothing
    /\ result = earlier.snapshot
    /\ result.has_match
    /\ \E n \in DOMAIN result.options : Len(result.options[n].appearance) >= 2
    /\ \E i, j \in HistIdx : SameExpansion(i, j) /\ Entered(i) /\ Entered(j)

-----------------------------------------------------------------------------
(* plugins/filter/utils.py: the attribute filters *)

\* The longest list the filters are given.
MaxItems == 2

\* the keys and the values of the dictionaries; None is a value like another
Attrs == {"status", "state"}
AttrValues == {"ok", "fail", None}

\* the dictionaries: any of the keys, each with any of the values
Dicts == UNION {[S -> AttrValues] : S \in SUBSET Attrs}
DataLists == UNION {[1..n -> Dicts] : n \in 0..MaxItems}

\* dict.get(attr): the value, or None when the key is not there
Get(item, attr) == IF attr \in DOMAIN item THEN item[attr] ELSE None

\* all(item.get(attr) == expected for item in data)
AllAttrEquals(data, attr, expected) ==
    \A i \in 1..Len(data) : Get(data[i], attr) = expected

\* not all_attr_equals(data, attr, expected)
AnyAttrNot(data, attr, expected) == ~AllAttrEquals(data, attr, expected)

\* the arguments of the filters, before either is called
FilterInit ==
    /\ flt \in [data : DataLists, attr : Attrs, expected : AttrValues,
                called : {{}}, all : {FALSE}, any : {FALSE}]
    /\ fs = [p \in SmallPaths |-> Missing]
    /\ root = "/A"
    /\ phase = "idle"
    /\ registry = NewRegistry
    /\ stack = <<>>
    /\ result = Nothing
    /\ hist = <<>>
    /\ earlier = Nothing

\* data | all_attr_equals(attr, expected)
CallAllAttrEquals ==
    /\ flt # Nothing
    /\ "all" \notin flt.called
    /\ flt' = [flt EXCEPT !.called = @ \cup {"all"},
                          !.all = AllAttrEquals(flt.data, flt.attr, flt.expected)]
    /\ UNCHANGED <<fs, root, phase, registry, stack, result, hist, earlier>>

\* data | any_attr_not(attr, expected)
CallAnyAttrNot ==
    /\ flt # Nothing
    /\ "any" \notin flt.called
    /\ flt' = [flt EXCEPT !.called = @ \cup {"any"},
                          !.any = AnyAttrNot(flt.data, flt.attr, flt.expected)]
    /\ UNCHANGED <<fs, root, phase, registry, stack, result, hist, earlier>>

FilterNext == CallAllAttrEquals \/ CallAnyAttrNot
FilterSpec == FilterInit /\ [][FilterNext]_vars

-----------------------------------------------------------------------------
(* C20 *)

\* the list holds a dictionary without the key
LacksKey == \E i \in 1..Len(flt.data) : flt.attr \notin DOMAIN flt.data[i]

\* C20: whenever the list holds a dictionary that lacks the key attr,
\* all_attr_equals(data, attr, expected) has returned False and
\* any_attr_not(data, attr, expected) has returned True, whatever value
\* expected is.
C20_MissingKey ==
    LacksKey =>
        /\ "all" \in flt.called => flt.all = FALSE
        /\ "any" \in flt.called => flt.any = TRUE

-----------------------------------------------------------------------------
(* C21 *)

\* every dictionary of the list has the key attr, with the value expected
EveryHasEqual ==
    \A i \in 1..Len(flt.data) :
        /\ flt.attr \in DOMAIN flt.data[i]
        /\ flt.data[i][flt.attr] = flt.expected

\* once both filters have been called on the same arguments, any_attr_not
\* has returned the negation of what all_attr_equals returned
C21_Negation ==
    flt.called = {"all", "any"} => flt.any = ~flt.all

\* on the empty list all_attr_equals has returned True and any_attr_not False
C21_EmptyList ==
    flt.data = <<>> =>
        /\ "all" \in flt.called => flt.all = TRUE
        /\ "any" \in flt.called => flt.any = FALSE

\* C21: for every list of dictionaries, attribute and expected value,
\* any_attr_not returns the negation of all_attr_equals, all_attr_equals
\* returns True exactly when every dictionary of the list has the attribute
\* equal to expected, and so on the empty list all_attr_equals returns True
\* and any_attr_not False.
C21_Contract ==
    /\ C21_Negation
    /\ "all" \in flt.called => (flt.all = EveryHasEqual)
    /\ "any" \in flt.called => (flt.any = ~EveryHasEqual)
    /\ C21_EmptyList

-----------------------------------------------------------------------------
(* C22 *)

\* the call event of the parse() call that the event at step i belongs to
EnterOf(i) ==
    CHOOSE c \in HistIdx :
        /\ c < i
        /\ Entered(c)
        /\ hist[c].depth = hist[i].depth
        /\ hist[c].file = hist[i].file
        /\ SameCall(hist[i].depth, c, i)
        /\ \A x \in (c + 1)..(i - 1) : ~(Entered(x) /\ hist[x].depth = hist[i].depth)

\* the scope that is active after lines[1..n] of the file of the call that
\* step i belongs to
ActiveAt(i, n) == ScopeAt(LinesOf(hist[i].file), hist[EnterOf(i)].scope, n)

\* C22: scope inheritance on Include.  Every call made for an Include line
\* is given the scope that was active in the includer at that line (that of
\* its last Match line before it, global after a `Match All`, else the scope
\* the includer was itself given); a file that has been entered and has
\* processed no Match line of its own has that scope as its local scope; and
\* every option of an included file before any Match line of its own is
\* registered in that scope.
C22_ScopeInheritance ==
    /\ \A e \in HistIdx : hist[e].op = "include" =>
            \A k \in CallsOf(e) : hist[k].scope = ActiveAt(e, hist[e].line - 1)
    /\ \A i \in 2..Len(stack) :
            NoMatchIn(LinesOf(stack[i].abs_path), 1, stack[i].pc - 1) =>
                stack[i].local_scope =
                    ScopeAt(LinesOf(stack[i - 1].abs_path), stack[i - 1].current_scope,
                            stack[i - 1].inc_line - 1)
    /\ \A a \in HistIdx :
            (/\ IsAdd(a)
             /\ hist[a].depth > 0
             /\ NoMatchIn(LinesOf(hist[a].file), 1, hist[a].line - 1)) =>
                LET scope == hist[EnterOf(a)].scope IN
                /\ hist[a].scope = scope
                /\ HasStore(registry, scope)
                /\ hist[a].key \in DOMAIN StoreOf(scope).options
                /\ Contains(StoreOf(scope).options[hist[a].key].appearance, hist[a].file)

\* one file has been included twice by the same includer, once from inside a
\* Match block and once after `Match ALL`, and its leading option has been
\* registered in the named scope the first time and in global the second
C22_Witness ==
    \E a, b \in HistIdx :
        /\ a < b
        /\ IsAdd(a) /\ IsAdd(b)
        /\ hist[a].file = hist[b].file /\ hist[a].line = hist[b].line
        /\ hist[a].depth = 1 /\ hist[b].depth = 1
        /\ NoMatchIn(LinesOf(hist[a].file), 1, hist[a].line - 1)
        /\ NamedScope(hist[a].scope)
        /\ hist[b].scope = "global"
        /\ hist[a].key \in DOMAIN StoreOf(hist[a].scope).options
        /\ hist[b].key \in DOMAIN StoreOf("global").options

-----------------------------------------------------------------------------
(* C23 *)

\* the stores of a registry that go by a name
StoresNamed(reg, name) == {i \in 1..Len(reg) : reg[i].scope_name = name}

\* what a Match line with value v, processed in file f, makes of a registry:
\* nothing when v is `all`; else the scope named v, verbatim, is there once,
\* f is recorded once as a file the scope was entered in, its location is
\* set when it had none, and no option and no other scope is touched
Dispatched(before, after, v, f) ==
    IF v \in AllWords THEN after = before
    ELSE /\ Cardinality(StoresNamed(after, v)) = 1
         /\ Len(after) = IF StoresNamed(before, v) = {} THEN Len(before) + 1
                         ELSE Len(before)
         /\ \A i \in 1..Len(before) : before[i].scope_name # v => after[i] = before[i]
         /\ LET new == after[CHOOSE i \in StoresNamed(after, v) : TRUE]
                fresh == StoresNamed(before, v) = {}
                old == IF fresh THEN new
                       ELSE before[CHOOSE i \in StoresNamed(before, v) : TRUE]
            IN /\ new.options = IF fresh THEN << >> ELSE old.options
               /\ new.location = IF fresh \/ old.location = None THEN f
                                 ELSE old.location
               /\ new.appearance = IF fresh THEN <<f>>
                                   ELSE IF Contains(old.appearance, f)
                                        THEN old.appearance
                                        ELSE Append(old.appearance, f)
               /\ Cardinality({k \in 1..Len(new.appearance) :
                                    new.appearance[k] = f}) = 1

\* the step processes a Match line
C23_MatchStep ==
    /\ Len(hist') = Len(hist) + 1
    /\ hist'[Len(hist')].op = "match"

\* a step that processes a Match line dispatches on the words of the line
C23_Dispatch ==
    C23_MatchStep =>
        LET ev == hist'[Len(hist')]
            v == LineValue(LinesOf(ev.file)[ev.line])
        IN /\ stack'[Len(stack')].local_scope =
                    (IF v \in AllWords THEN "global" ELSE v)
           /\ Dispatched(registry, registry', v, ev.file)

\* two Match values that differ, be it in letter case only, have two stores,
\* and each holds for an option the value of its own first add call
C23_Separate ==
    \A i, j \in HistIdx :
        (/\ IsMatchEv(i) /\ IsMatchEv(j)
         /\ hist[i].value \notin AllWords /\ hist[j].value \notin AllWords
         /\ hist[i].value # hist[j].value) =>
            /\ StoresNamed(registry, hist[i].value)
                    \cap StoresNamed(registry, hist[j].value) = {}
            /\ \A v \in {hist[i].value, hist[j].value} :
                \A idx \in StoresNamed(registry, v) :
                    \A key \in DOMAIN registry[idx].options :
                        /\ AddsOf(v, key) # <<>>
                        /\ registry[idx].options[key].value = AddsOf(v, key)[1].value

\* C23: Match dispatch.  A Match line whose value is `all` in any letter
\* case sets the local scope to global and leaves the registry as it is: no
\* scope is created, no match entry recorded.  Every other Match value
\* becomes the local scope verbatim; the scope of that very name is in the
\* registry once afterwards, with the file recorded once as a match entry.
\* Values that differ in letter case only (`User bob`, `user bob`) are two
\* scopes, each with its own first-wins options.
C23_MatchDispatch == [](C23_Separate) /\ [][C23_Dispatch]_vars

\* `Match User bob`, `Match user bob` and `MATCH All` have been processed
\* in one file; the two scopes hold different values for Port, and global a
\* third
C23_Witness ==
    /\ \E i \in HistIdx : IsMatchEv(i) /\ hist[i].value = "All"
    /\ HasStore(registry, "User bob") /\ HasStore(registry, "user bob")
    /\ "port" \in DOMAIN StoreOf("User bob").options
    /\ "port" \in DOMAIN StoreOf("user bob").options
    /\ "port" \in DOMAIN StoreOf("global").options
    /\ StoreOf("User bob").options["port"].value = "22"
    /\ StoreOf("user bob").options["port"].value = "80"
    /\ StoreOf("global").options["port"].value = "1"
    /\ Len(registry) = 3

-----------------------------------------------------------------------------
(* C24 *)

\* C24: global scope invariant.  In every state, whatever lines were
\* processed (every Match value included), the global scope is in the
\* registry, its own location is unset and its own appearance list is empty.
C24_GlobalInvariant ==
    /\ HasStore(registry, "global")
    /\ Cardinality({i \in 1..Len(registry) : registry[i].scope_name = "global"}) = 1
    /\ StoreOf("global").location = None
    /\ StoreOf("global").appearance = <<>>

\* the part of it that no line can undo: the global scope is in the
\* registry, once
C24_GlobalExists ==
    Cardinality({i \in 1..Len(registry) : registry[i].scope_name = "global"}) = 1

-----------------------------------------------------------------------------
(* C25 *)

\* the files in which an option was added to a scope
AddFiles(scope) == {hist[i].file : i \in {j \in HistIdx : IsAdd(j) /\ hist[j].scope = scope}}

\* the files in which a Match line for a condition was processed
MatchFiles(c) == {hist[i].file : i \in {j \in HistIdx : IsMatchEv(j) /\ hist[j].value = c}}

\* in every state, the store of a named scope has the file of the first
\* Match line processed for it as location and the distinct files of those
\* Match lines, in order of first occurrence, as appearance; a file that has
\* only added options to the scope is not in the appearance
C25_Recorded ==
    \A c \in Conditions :
        LET ms == MatchesOf(c) IN
        /\ HasStore(registry, c)
        /\ StoreOf(c).location = ms[1].file
        /\ StoreOf(c).appearance = Distinct(FilesOf(ms))
        /\ \A k \in 1..Len(StoreOf(c).appearance) :
                Cardinality({x \in 1..Len(StoreOf(c).appearance) :
                    StoreOf(c).appearance[x] = StoreOf(c).appearance[k]}) = 1
        /\ \A f \in AddFiles(c) \ MatchFiles(c) : ~Contains(StoreOf(c).appearance, f)

\* no step changes the location a named scope has, or takes a file out of
\* its appearance
C25_Kept ==
    \A i \in 1..Len(registry) :
        (NamedScope(registry[i].scope_name) /\ registry[i].location # None) =>
            /\ i <= Len(registry')
            /\ registry'[i].scope_name = registry[i].scope_name
            /\ registry'[i].location = registry[i].location
            /\ IsPrefix(registry[i].appearance, registry'[i].appearance)

\* C25: scope location and appearance.  A named scope's location is the file
\* of the first Match line processed for it and never changes afterwards;
\* its appearance holds exactly the files in which a Match line for it was
\* processed, each once also when the occurrences are not consecutive, in
\* order of first occurrence.  A file that only adds options to the scope,
\* through inheritance from its includer, is not in the appearance, and the
\* location is the same wherever the options are defined.
C25_ScopeAppearance == [](C25_Recorded) /\ [][C25_Kept]_vars

\* Match lines for one scope have been processed in a file, then in another
\* and then in the first again, and the appearance holds the two files; the
\* scope holds an option defined in a third file, which is not in the
\* appearance
C25_Witness ==
    \E c \in Conditions :
        /\ HasStore(registry, c)
        /\ Len(StoreOf(c).appearance) = 2
        /\ \E i, j, k \in HistIdx :
            /\ i < j /\ j < k
            /\ IsMatchEv(i) /\ IsMatchEv(j) /\ IsMatchEv(k)
            /\ hist[i].value = c /\ hist[j].value = c /\ hist[k].value = c
            /\ hist[i].file = hist[k].file
            /\ hist[i].file # hist[j].file
        /\ \E n \in DOMAIN StoreOf(c).options :
            /\ StoreOf(c).options[n].location # StoreOf(c).location
            /\ ~Contains(StoreOf(c).appearance, StoreOf(c).options[n].location)

-----------------------------------------------------------------------------
(* C26 *)

\* the spellings of the option names of the inputs, name by name
NameSpellings ==
    { {"Port", "PORT", "port"}, {"Banner", "BANNER", "banner"},
      {"LogLevel", "LOGLEVEL", "loglevel"} }

\* two spellings of one option name
SameName(a, b) == a = b \/ \E S \in NameSpellings : a \in S /\ b \in S

\* the first add call made in a scope for a name, whatever its spelling
FirstAdd(scope, name) ==
    Least({i \in HistIdx : IsAdd(i) /\ hist[i].scope = scope
                                    /\ SameName(hist[i].name, name)})

\* the records of a function from keys to option records that stand for a name
RecordsFor(named, name) == {k \in DOMAIN named : SameName(named[k], name)}

\* in every store there is one record for a name that add was called with,
\* under whatever spellings: it has the spelling and the value of the first call
C26_OneRecord ==
    \A i \in 1..Len(registry) : \A a \in HistIdx :
        (IsAdd(a) /\ hist[a].scope = registry[i].scope_name) =>
            LET opts == registry[i].options
                recs == RecordsFor([k \in DOMAIN opts |-> opts[k].name], hist[a].name)
                first == hist[FirstAdd(hist[a].scope, hist[a].name)]
            IN /\ Cardinality(recs) = 1
               /\ \A k \in recs : opts[k].name = first.name /\ opts[k].value = first.value

\* the exported options of a scope have one entry for such a name: its key is
\* the first spelling, its value the first value
ExportedOnce(exported, scope) ==
    \A a \in HistIdx :
        (IsAdd(a) /\ hist[a].scope = scope) =>
            LET recs == RecordsFor([n \in DOMAIN exported |-> n], hist[a].name)
                first == hist[FirstAdd(scope, hist[a].name)]
            IN /\ recs = {first.name}
               /\ exported[first.name].value = first.value

C26_Exported ==
    phase = "reported" =>
        /\ ExportedOnce(result.options, "global")
        /\ \A j \in 1..Len(result.Match) :
                ExportedOnce(result.Match[j].options, result.Match[j].condition)

\* each line was dispatched by its first word, compared without regard to
\* letter case, and no option is named include or match
C26_Dispatched ==
    /\ \A i \in HistIdx :
        hist[i].op \in {"add", "include", "match", "skip"} =>
            LET line == LinesOf(hist[i].file)[hist[i].line] IN
            /\ LineIsInclude(line) <=> hist[i].op = "include"
            /\ LineIsMatch(line) <=> hist[i].op = "match"
            /\ LineIsOption(line) <=> hist[i].op = "add"
    /\ \A i \in 1..Len(registry) : \A k \in DOMAIN registry[i].options :
            registry[i].options[k].name \notin IncludeWords \cup MatchWords

\* C26: option names are compared case-insensitively inside a scope and
\* directive keys case-insensitively for dispatch.  `Port` followed by `PORT`
\* in one scope gives one option record, exported under the spelling first
\* met (`Port`) with the first value; `include` and `MATCH`, in any letter
\* case, are dispatched as Include and Match and never stored as options.
C26_CaseInsensitive == C26_OneRecord /\ C26_Exported /\ C26_Dispatched

\* a snapshot of a run that has processed `include`, `INCLUDE` and `MATCH`
\* lines, and `Port 22` followed by `PORT 2222` in one scope: the scope's
\* entry has Port, with 22, and no PORT
C26_Witness ==
    /\ phase = "reported"
    /\ \E i, j, k \in HistIdx :
        /\ hist[i].op = "include" /\ LinesOf(hist[i].file)[hist[i].line].parts[1] = "include"
        /\ hist[j].op = "include" /\ LinesOf(hist[j].file)[hist[j].line].parts[1] = "INCLUDE"
        /\ hist[k].op = "match" /\ LinesOf(hist[k].file)[hist[k].line].parts[1] = "MATCH"
    /\ \E a, b \in HistIdx :
        /\ a < b
        /\ IsAdd(a) /\ IsAdd(b)
        /\ hist[a].scope = hist[b].scope
        /\ hist[a].name = "Port" /\ hist[b].name = "PORT"
        /\ hist[a].value = "22" /\ hist[b].value = "2222"
        /\ \E m \in 1..Len(result.Match) :
            /\ result.Match[m].condition = hist[a].scope
            /\ DOMAIN result.Match[m].options = {"Port"}
            /\ result.Match[m].options["Port"].value = "22"

-----------------------------------------------------------------------------
(* C27 *)

\* the line of a line event
LineOf(i) == LinesOf(hist[i].file)[hist[i].line]

\* the step skips a line
C27_SkipStep ==
    /\ Len(hist') = Len(hist) + 1
    /\ hist'[Len(hist')].op = "skip"

\* a step that skips a line changes neither the registry nor the local scope
\* of the file, ends neither the call nor the run, and leaves the loop at
\* the next line
C27_NoEffect ==
    C27_SkipStep =>
        /\ registry' = registry
        /\ result' = result
        /\ phase' = phase
        /\ Len(stack') = Len(stack)
        /\ SubSeq(stack', 1, Len(stack) - 1) = SubSeq(stack, 1, Len(stack) - 1)
        /\ stack'[Len(stack')] = [stack[Len(stack)] EXCEPT !.pc = @ + 1]

\* the lines skipped are the blank lines, the comments and the lines that
\* cannot be split, and once a call has returned, every line after a skipped
\* one was processed by it
C27_GoesOn ==
    \A s \in HistIdx :
        hist[s].op \in {"skip", "add", "match", "include"} =>
            /\ hist[s].op = "skip" <=> LineOf(s).t \in {"blank", "comment", "badquote"}
            /\ (hist[s].op = "skip" /\ ExitOf(s) # 0) =>
                \A n \in (hist[s].line + 1)..Len(LinesOf(hist[s].file)) :
                    \E k \in (s + 1)..(ExitOf(s) - 1) :
                        /\ hist[k].op \in {"skip", "add", "match", "include"}
                        /\ hist[k].depth = hist[s].depth
                        /\ hist[k].file = hist[s].file
                        /\ hist[k].line = n

\* C27: skipped lines.  A blank line, a comment line and a line that cannot
\* be split into words (unbalanced quotes) each leave the registry and the
\* local scope of the file as they are, raise nothing and do not stop the
\* file: every later line of the file is still processed.
C27_SkippedLines == [](C27_GoesOn) /\ [][C27_NoEffect]_vars

\* a file has skipped a blank line, a line with unbalanced quotes and a
\* comment inside a Match block and has returned; the options after each of
\* them are registered in the scope of the block
C27_Witness ==
    \E b, q, c, p, o \in HistIdx :
        /\ hist[b].op = "skip" /\ LineOf(b).t = "blank"
        /\ hist[q].op = "skip" /\ LineOf(q).t = "badquote"
        /\ hist[c].op = "skip" /\ LineOf(c).t = "comment"
        /\ IsAdd(p) /\ IsAdd(o)
        /\ b < p /\ p < q /\ q < c /\ c < o
        /\ ExitOf(b) # 0 /\ o < ExitOf(b)
        /\ NamedScope(hist[p].scope) /\ hist[o].scope = hist[p].scope
        /\ HasStore(registry, hist[p].scope)
        /\ DOMAIN StoreOf(hist[p].scope).options = {hist[p].key, hist[o].key}
        /\ hist[p].key # hist[o].key

-----------------------------------------------------------------------------
(* C28 *)

\* the files being parsed, outermost first
ChainFiles == [i \in 1..Len(stack) |-> stack[i].abs_path]

\* along the call chain the files are pairwise distinct and at most 21, the
\* frame at place i is at depth i - 1, and the stack it hands down holds the
\* files down to itself
C28_Chain ==
    /\ \A i, j \in 1..Len(stack) : ChainFiles[i] = ChainFiles[j] => i = j
    /\ Len(stack) <= 21
    /\ \A i \in 1..Len(stack) :
        /\ stack[i].depth = i - 1
        /\ stack[i].new_stack = {ChainFiles[j] : j \in 1..i}

\* C28: termination on any include graph.  For every snapshot of the inputs
\* (a file that includes itself, a glob that matches the including file,
\* cycles of two and three files, a file included twice by one file or by
\* two, a chain longer than the depth limit), parse(root) returns; along
\* every call chain the files being parsed are pairwise distinct and the
\* chain holds at most 21 files.
C28_Termination ==
    /\ [](C28_Chain)
    /\ (phase = "parsing") ~> (phase = "done")

\* a parse has returned in which the root's glob matched the root itself, a
\* file two levels down included the root again, and one file was parsed
\* twice, once under each of two files
C28_Witness ==
    /\ phase = "done"
    /\ \E i, j \in HistIdx :
        /\ IsCall(i) /\ hist[i].depth = 1 /\ hist[i].file = root
        /\ hist[i].outcome = "cycle"
        /\ IsCall(j) /\ hist[j].depth = 3 /\ hist[j].file = root
        /\ hist[j].outcome = "cycle"
    /\ \E a, b \in HistIdx :
        /\ a < b
        /\ Entered(a) /\ Entered(b)
        /\ hist[a].file = hist[b].file
        /\ hist[a].depth # hist[b].depth

-----------------------------------------------------------------------------
(* C29 *)

\* the Match line processed at step m is one of the call that step a belongs
\* to, or of a call above it on the call chain
OnChainBefore(m, a) ==
    /\ m < a
    /\ hist[m].depth <= hist[a].depth
    /\ SameCall(hist[m].depth, m, a)

\* every scope of the registry other than the global one has a location and
\* a non-empty appearance that starts with it, and a Match line was
\* processed for it
C29_Located ==
    \A i \in 1..Len(registry) :
        registry[i].scope_name # "global" =>
            /\ registry[i].location # None
            /\ registry[i].appearance # <<>>
            /\ registry[i].location = registry[i].appearance[1]
            /\ \E m \in HistIdx : IsMatchEv(m) /\ hist[m].value = registry[i].scope_name

\* an option is added to a scope other than the global one only after a
\* Match line for that scope, in the same call or in one above it
C29_AfterMatch ==
    \A a \in HistIdx :
        (IsAdd(a) /\ hist[a].scope # "global") =>
            \E m \in HistIdx :
                /\ IsMatchEv(m)
                /\ hist[m].value = hist[a].scope
                /\ OnChainBefore(m, a)

\* a scope that a Match line has entered is in the snapshot, with no options
\* when none was added to it
C29_InSnapshot ==
    phase = "reported" =>
        \A c \in Conditions :
            \E j \in 1..Len(result.Match) :
                /\ result.Match[j].condition = c
                /\ KeysAdded(c) = {} => DOMAIN result.Match[j].options = {}

\* C29: with the top-level parse started in the global scope, every scope of
\* the registry other than the global one has, in every state, a location
\* and a non-empty appearance whose first file is the location: a named
\* scope is created and written to only after a Match line for it was
\* processed, in the same file or in an ancestor on the call chain.  A scope
\* entered by a Match line that no option follows is still in the snapshot,
\* with empty options.
C29_NamedScopes ==
    hist # <<>> /\ hist[1].scope = "global" =>
        C29_Located /\ C29_AfterMatch /\ C29_InSnapshot

\* a snapshot with two Match entries: one has no options; the other holds an
\* option of an included file that has no Match line, and was entered in
\* two files, the first of which is its location
C29_Witness ==
    /\ phase = "reported"
    /\ hist[1].scope = "global"
    /\ \E j \in 1..Len(result.Match) : DOMAIN result.Match[j].options = {}
    /\ \E j \in 1..Len(result.Match) :
        /\ Len(result.Match[j].appearance) >= 2
        /\ result.Match[j].location = result.Match[j].appearance[1]
    /\ \E a, m \in HistIdx :
        /\ IsAdd(a) /\ IsMatchEv(m)
        /\ hist[a].scope = hist[m].value
        /\ hist[m].depth < hist[a].depth
        /\ OnChainBefore(m, a)
        /\ NoMatchIn(LinesOf(hist[a].file), 1, Len(LinesOf(hist[a].file)))

-----------------------------------------------------------------------------
(* plugins/modules/sshd_info.py: the module's own copy of OptionStore and   *)
(* SshConfigParser, run after the copy in module_utils on the same root     *)

\* OptionStore.__init__
InfoNewStore(scope_name) ==
    [scope_name |-> scope_name,
     location   |-> None,
     appearance |-> <<>>,
     options    |-> [k \in {} |-> None]]

\* OptionStore.update_appearance
InfoUpdateAppearance(store, filepath) ==
    [store EXCEPT !.location = IF @ = None THEN filepath ELSE @,
                  !.appearance = IF Contains(@, filepath) THEN @
                                 ELSE Append(@, filepath)]

\* OptionStore.add
InfoAdd(store, key, value, filepath) ==
    LET k_lower == Lower(key) IN
    IF k_lower \notin DOMAIN store.options
    THEN [store EXCEPT !.options =
            (k_lower :> [name |-> key, value |-> value,
                         location |-> filepath, appearance |-> <<filepath>>]) @@ @]
    ELSE [store EXCEPT !.options[k_lower].appearance =
                            IF Contains(@, filepath) THEN @ ELSE Append(@, filepath)]

\* OptionStore.to_dict
InfoToDict(store) ==
    LET names == {store.options[k].name : k \in DOMAIN store.options}
        Key(n) == CHOOSE k \in DOMAIN store.options : store.options[k].name = n
        options_export ==
            [n \in names |->
                [value      |-> store.options[Key(n)].value,
                 location   |-> store.options[Key(n)].location,
                 appearance |-> store.options[Key(n)].appearance]]
    IN IF store.scope_name = "global"
       THEN options_export
       ELSE [condition  |-> store.scope_name,
             location   |-> store.location,
             appearance |-> store.appearance,
             options    |-> options_export]

\* SshConfigParser.__init__
InfoNewRegistry == <<InfoNewStore("global")>>

\* SshConfigParser._get_store
InfoGetStore(reg, scope) ==
    IF \E i \in 1..Len(reg) : reg[i].scope_name = scope
    THEN reg ELSE Append(reg, InfoNewStore(scope))

\* SshConfigParser.get_structured_data
InfoGetStructuredDataOf(reg) ==
    LET named == SelectSeq(reg, LAMBDA st : st.scope_name # "global")
        match_list == [i \in 1..Len(named) |-> InfoToDict(named[i])]
    IN [options |-> InfoToDict(reg[StoreIndex(reg, "global")]),
        has_match |-> match_list # <<>>,
        Match |-> match_list]

\* `if depth > 20: return`
InfoDepthExceeded(depth) == depth > 20

\* the policy the other variant had: a file is parsed once in the whole
\* traversal
InfoInCallStackVisited(abs_path, call_stack) == abs_path \in Visited

\* `if abs_path in call_stack: return`
InfoInCallStack(abs_path, call_stack) == abs_path \in call_stack

\* the early returns of parse(), and the call that reads the file
InfoParseEntry(filepath, depth, call_stack) ==
    IF InfoDepthExceeded(depth) THEN "depth"
    ELSE IF InfoInCallStack(AbsPath(filepath), call_stack) THEN "cycle"
    ELSE IF ~Exists(AbsPath(filepath)) \/ ~IsFile(AbsPath(filepath)) THEN "missing"
    ELSE IF ~CanOpen(AbsPath(filepath)) THEN "unreadable"
    ELSE "enter"

\* the locals of a parse() call that runs its loop
InfoNewFrame(filepath, current_scope, depth, call_stack) ==
    [abs_path      |-> AbsPath(filepath),
     current_scope |-> current_scope,
     depth         |-> depth,
     new_stack     |-> call_stack \cup {AbsPath(filepath)},
     local_scope   |-> current_scope,
     pc            |-> 1,
     inc_line      |-> 0,
     pending       |-> <<>>]

InfoRunning == phase = "info_parsing" /\ stack # <<>>
InfoAtLine == InfoRunning /\ Top.pending = <<>> /\ Top.pc <= Len(LinesOf(Top.abs_path))

\* main: parser = SshConfigParser(base_dir=base_dir), for a root that the
\* copy in module_utils has parsed; what that one returned is kept aside
InfoNewParser ==
    /\ phase = "reported"
    /\ earlier = Nothing
    /\ earlier' = [snapshot |-> result, hist |-> hist]
    /\ registry' = InfoNewRegistry
    /\ stack' = <<>>
    /\ result' = Nothing
    /\ hist' = <<>>
    /\ phase' = "info_new"
    /\ UNCHANGED <<flt, fs, root>>

\* main: parser.parse(config_path, "global")
InfoParse ==
    /\ phase = "info_new"
    /\ Exists(root)
    /\ LET out == InfoParseEntry(root, 0, {}) IN
        /\ hist' = Append(hist, [op |-> "call", file |-> AbsPath(root), depth |-> 0,
                                  line |-> 0, chain |-> {}, scope |-> "global",
                                  outcome |-> out])
        /\ IF out = "enter"
           THEN /\ stack' = <<InfoNewFrame(root, "global", 0, {})>>
                /\ phase' = "info_parsing"
           ELSE /\ stack' = <<>>
                /\ phase' = "info_done"
    /\ UNCHANGED <<flt, earlier, fs, root, registry, result>>

\* a blank line, a comment, a line shlex cannot split: `continue`
InfoSkipLine ==
    /\ InfoAtLine
    /\ CurLine.t # "words" \/ CurLine.parts = <<>>
    /\ stack' = SetTop([Top EXCEPT !.pc = @ + 1])
    /\ hist' = Append(hist, [op |-> "skip", file |-> Top.abs_path, line |-> Top.pc,
                              depth |-> Top.depth])
    /\ UNCHANGED <<flt, earlier, fs, root, phase, registry, result>>

\* `if key.lower() == "include"`: _handle_include expands the pattern
InfoIncludeLine ==
    /\ InfoAtLine
    /\ CurLine.t = "words" /\ CurLine.parts # <<>>
    /\ Lower(CurLine.parts[1]) = "include"
    /\ LET value == IF Len(CurLine.parts) > 1 THEN JoinSpace(Tail(CurLine.parts)) ELSE ""
           pattern == IF IsAbs(value) THEN value ELSE PathJoin(DirName(root), value)
       IN \E order \in GlobOrders(pattern) :
            /\ stack' = SetTop([Top EXCEPT !.pc = @ + 1, !.inc_line = Top.pc,
                                            !.pending = Sorted(order)])
            /\ hist' = Append(hist, [op |-> "include", file |-> Top.abs_path,
                                      line |-> Top.pc, depth |-> Top.depth,
                                      scope |-> Top.local_scope, pattern |-> value])
    /\ UNCHANGED <<flt, earlier, fs, root, phase, registry, result>>

\* self.parse(file_path, active_scope, depth + 1, call_stack) for the next match
InfoHandleIncludeNext ==
    /\ InfoRunning
    /\ Top.pending # <<>>
    /\ LET file_path == Head(Top.pending)
           out == InfoParseEntry(file_path, Top.depth + 1, Top.new_stack)
           caller == [Top EXCEPT !.pending = Tail(@)]
       IN
        /\ hist' = Append(hist, [op |-> "call", file |-> AbsPath(file_path),
                                  depth |-> Top.depth + 1, line |-> Top.inc_line,
                                  chain |-> Chain, scope |-> Top.local_scope,
                                  outcome |-> out])
        /\ stack' = IF out = "enter"
                     THEN Append(SetTop(caller),
                                 InfoNewFrame(file_path, Top.local_scope, Top.depth + 1,
                                              Top.new_stack))
                     ELSE SetTop(caller)
    /\ UNCHANGED <<flt, earlier, fs, root, phase, registry, result>>

\* `elif key.lower() == "match"`; no snapshot of this parser is held while
\* it parses
InfoMatchLine ==
    /\ InfoAtLine
    /\ CurLine.t = "words" /\ CurLine.parts # <<>>
    /\ Lower(CurLine.parts[1]) # "include"
    /\ Lower(CurLine.parts[1]) = "match"
    /\ LET value == IF Len(CurLine.parts) > 1 THEN JoinSpace(Tail(CurLine.parts)) ELSE ""
       IN
        /\ IF Lower(value) = "all"
           THEN /\ stack' = SetTop([Top EXCEPT !.pc = @ + 1, !.local_scope = "global"])
                /\ registry' = registry
           ELSE LET reg == InfoGetStore(registry, value)
                    i == StoreIndex(reg, value)
                IN /\ stack' = SetTop([Top EXCEPT !.pc = @ + 1, !.local_scope = value])
                   /\ registry' = [reg EXCEPT ![i] = InfoUpdateAppearance(@, Top.abs_path)]
        /\ hist' = Append(hist, [op |-> "match", file |-> Top.abs_path, line |-> Top.pc,
                                  depth |-> Top.depth, value |-> value,
                                  inherited |-> Top.current_scope])
    /\ UNCHANGED <<flt, earlier, fs, root, phase, result>>

\* a regular option
InfoOptionLine ==
    /\ InfoAtLine
    /\ CurLine.t = "words" /\ CurLine.parts # <<>>
    /\ Lower(CurLine.parts[1]) # "include"
    /\ Lower(CurLine.parts[1]) # "match"
    /\ LET key == CurLine.parts[1]
           value == IF Len(CurLine.parts) > 1 THEN JoinSpace(Tail(CurLine.parts)) ELSE ""
           reg == InfoGetStore(registry, Top.local_scope)
           i == StoreIndex(reg, Top.local_scope)
       IN /\ registry' = [reg EXCEPT ![i] = InfoAdd(@, key, value, Top.abs_path)]
          /\ hist' = Append(hist, [op |-> "add", file |-> Top.abs_path, line |-> Top.pc,
                                    depth |-> Top.depth, scope |-> Top.local_scope,
                                    key |-> Lower(key), name |-> key, value |-> value,
                                    inherited |-> Top.current_scope])
    /\ stack' = SetTop([Top EXCEPT !.pc = @ + 1])
    /\ UNCHANGED <<flt, earlier, fs, root, phase, result>>

\* the end of the loop: the call returns
InfoReturnEOF ==
    /\ InfoRunning
    /\ Top.pending = <<>>
    /\ Top.pc > Len(LinesOf(Top.abs_path))
    /\ stack' = SubSeq(stack, 1, Len(stack) - 1)
    /\ phase' = IF Len(stack) = 1 THEN "info_done" ELSE phase
    /\ hist' = Append(hist, [op |-> "exit", file |-> Top.abs_path, depth |-> Top.depth])
    /\ UNCHANGED <<flt, earlier, fs, root, registry, result>>

\* main: final_structure = parser.get_structured_data()
InfoGetStructuredData ==
    /\ phase = "info_done"
    /\ result' = InfoGetStructuredDataOf(registry)
    /\ phase' = "info_reported"
    /\ UNCHANGED <<flt, earlier, fs, root, registry, stack, hist>>

\* The copy in module_utils, then the copy in the module, on one root.
CopiesNext ==
    \/ Next
    \/ InfoNewParser
    \/ InfoParse
    \/ InfoSkipLine
    \/ InfoIncludeLine
    \/ InfoHandleIncludeNext
    \/ InfoMatchLine
    \/ InfoOptionLine
    \/ InfoReturnEOF
    \/ InfoGetStructuredData
CopiesSpec == Init /\ [][CopiesNext]_vars

-----------------------------------------------------------------------------
(* C30 *)

\* the copy in the module is at work, or has returned
InfoPhases == {"info_new", "info_parsing", "info_done", "info_reported"}

\* C30: the two copies of the parser are equivalent.  For every snapshot
\* and root of the inputs, with the base directory of the root, the copy in
\* plugins/modules/sshd_info.py makes, step by step, the calls the copy in
\* plugins/module_utils/ssh_parser.py made, with the same outcomes (the same
\* files refused as ancestors on the call chain, the same calls refused for
\* their depth), and parse followed by get_structured_data returns an equal
\* snapshot.
C30_Equivalent ==
    /\ phase \in InfoPhases => IsPrefix(hist, earlier.hist)
    /\ phase \in {"info_done", "info_reported"} => hist = earlier.hist
    /\ phase = "info_reported" => result = earlier.snapshot

\* the two copies have returned the same snapshot, with a Match entry, for
\* a traversal in which each refused a file as an ancestor on the call
\* chain and parsed another file twice
C30_Witness ==
    /\ phase = "info_reported"
    /\ result = earlier.snapshot
    /\ result.has_match
    /\ \E i \in HistIdx : IsCall(i) /\ hist[i].outcome = "cycle"
    /\ \E a, b \in HistIdx :
        a < b /\ Entered(a) /\ Entered(b) /\ hist[a].file = hist[b].file

\* the two copies have refused the same call for its depth
C30_DepthWitness ==
    /\ phase = "info_reported"
    /\ hist = earlier.hist
    /\ \E i \in HistIdx : IsCall(i) /\ hist[i].outcome = "depth"

=============================================================================
